---- MODULE Spec2Model ----
(***************************************************************************)
(* Trade execution pipeline of app/services/trade_engine.py: the alert     *)
(* state machine (TradeEngine.process_alert), single-strategy execution    *)
(* (_should_execute_trade, _execute_trade, _calculate_position_size, the   *)
(* paper and live executors), the risk evaluator                           *)
(* (RiskManager.check_risk_limits) and order reconciliation                *)
(* (TradeEngine.update_trade_status).                                      *)
(*                                                                         *)
(* Every invocation of process_alert works on its own unit of work (an     *)
(* AsyncSession): it reads rows into in-memory objects, changes them, and  *)
(* a commit writes the changed attributes to the store.  The store        *)
(* is shared; the in-memory objects (inv) are private to the invocation.   *)
(* Invocations interleave at their await points; one action of the model   *)
(* is the code between two await points that touch the store or place an   *)
(* order.  Every store operation may raise; a commit that raises rolls the *)
(* unit of work back.  Sessions keep attribute values across a successful  *)
(* commit (expire_on_commit=False, as in app/tests/conftest.py).           *)
(***************************************************************************)
EXTENDS Integers, Sequences, FiniteSets, TLC

\* ---- bounds of the model ----
MaxRuns == 2         \* process_alert invocations started in one behaviour
MaxUpdates == 2      \* update_trade_status invocations in one behaviour
MaxCalls == 3
MaxTasks == 3
MaxDequeueErrors == 2
MaxClientCalls == 3
MaxTokens == 2
MaxMetricCalls == 4        \* invocations of both entry points in one behaviour
MaxSignals == 2      \* webhook signals received in one behaviour

\* ---- process-wide risk limits (app/config.py) ----
max_position_size == 100000
max_daily_loss == 5000
max_daily_trades == 50

\* Optional values: None, or a one-element tuple holding the value
None == <<>>
Some(v) == <<v>>
Val(x) == x[1]

Procs == {1, 2}               \* consumer processes
AlertIds == {1, 2}            \* ids of alerts: one alert row, or two, in the store
OneAlert == {1}
UnknownAlertId == 0           \* an id with no alert row
StrategyIds == {1, 2}         \* strategy rows of the owning user, in query order

\* AlertStatus, AlertType (app/models/alert.py)
AlertStatus == {"received", "processing", "processed", "failed", "ignored"}
AlertType == {"buy", "sell", "hold", "stop_loss", "take_profit"}
\* TradeStatus (app/models/trade.py)
TradeStatus == {"pending", "submitted", "filled", "partially_filled",
                "cancelled", "rejected", "failed"}

\* what get_current_price can return for the alert's symbol
PriceReplies == {None, Some(40000), Some(60000)}
\* what get_funds can do: raise, or return a fund_limit
FundsReplies == {[raises |-> TRUE, fund_limit |-> 0],
                 [raises |-> FALSE, fund_limit |-> 0],
                 [raises |-> FALSE, fund_limit |-> 10000000]}
\* outcome of the market-status request behind is_market_open
MarketReplies == {"open", "closed", "error"}
\* outcome of an order placement: a response with order data, a response
\* without it, an API error raised by the client
OrderReplies == {"data", "no_data", "api_error"}
\* order status strings the broker reports
BrokerStatuses == {"filled", "FILLED", "cancelled", "rejected", "open"}

VARIABLES
    dbAlert,       \* store: alert rows          [AlertIds -> record]
    dbUser,        \* store: the owning user row (None: no such row)
    dbStrategy,    \* store: strategy rows       [StrategyIds -> record]
    dbTrades,      \* store: trade rows, a sequence, trade id = index
    dbRisk,        \* store: today's earlier filled trades and the position
    now,           \* datetime.utcnow()
    ordersPlaced,  \* orders the broker accepted (broker order id = count)
    consumers,     \* consumer processes that run process_alert
    pc,            \* position of each process_alert invocation
    inv,           \* in-memory objects and locals of each invocation
    runs,          \* process_alert invocations started so far
    uts,           \* update_trade_status: calls so far, the last call's outcome
    sz,            \* a _calculate_position_size call on its own: inputs, result
    rq,            \* a FyersClient._make_request call on its own
    bg,            \* the task queues and background_task_processor's loop
    fc,            \* TradeEngine._fyers_clients and the calls of _get_fyers_client
    pm,            \* a Strategy under update_performance_metrics calls
    wh             \* the webhook handler, the queues and the consumer together

vars == <<dbAlert, dbUser, dbStrategy, dbTrades, dbRisk, now, ordersPlaced,
          consumers, pc, inv, runs, uts, sz, rq, bg, fc, pm, wh>>

\* ---------------------------------------------------------------------
\* Model classes
\* ---------------------------------------------------------------------

\* faulty variant: failed and ignored alerts are taken up again
is_processed_only_processed(status) == status = "processed"

\* Alert.is_processed
is_processed(status) == status \in {"processed", "failed", "ignored"}

\* faulty variant: the expiry time is not compared with the clock
has_fyers_credentials_ignoring_expiry(user) ==
    /\ user.fyers_access_token # None
    /\ user.fyers_refresh_token # None
    /\ user.fyers_token_expires_at # None

\* User.has_fyers_credentials
has_fyers_credentials(user) ==
    /\ user.fyers_access_token # None
    /\ user.fyers_refresh_token # None
    /\ user.fyers_token_expires_at # None
    /\ Val(user.fyers_token_expires_at) > now

\* an assignment to trade.status; status_log keeps the statuses the Trade
\* object went through, for the properties
set_status(trade, status) ==
    [trade EXCEPT !.status = status,
                  !.status_log = IF status = trade.status THEN @ ELSE Append(@, status)]

\* Trade.update_execution
update_execution(trade, filled_qty, avg_price, fyers_status) ==
    LET t == [trade EXCEPT
                !.filled_quantity = filled_qty,
                !.average_price = Some(avg_price),
                !.fyers_status = Some(fyers_status)]
    IN  IF filled_qty = trade.quantity
        THEN [set_status(t, "filled") EXCEPT !.filled_at = Some(now)]
        ELSE IF filled_qty > 0 THEN set_status(t, "partially_filled")
        ELSE t

\* user rows the store can hold: complete credentials, each field missing
\* in turn, a token that expired and one that expires now
UserRows ==
    { [fyers_access_token |-> Some("token"), fyers_refresh_token |-> Some("refresh"),
       fyers_token_expires_at |-> Some(9)],
      [fyers_access_token |-> None, fyers_refresh_token |-> Some("refresh"),
       fyers_token_expires_at |-> Some(9)],
      [fyers_access_token |-> Some("token"), fyers_refresh_token |-> None,
       fyers_token_expires_at |-> Some(9)],
      [fyers_access_token |-> Some("token"), fyers_refresh_token |-> Some("refresh"),
       fyers_token_expires_at |-> None],
      [fyers_access_token |-> Some("token"), fyers_refresh_token |-> Some("refresh"),
       fyers_token_expires_at |-> Some(1)],
      [fyers_access_token |-> Some("token"), fyers_refresh_token |-> Some("refresh"),
       fyers_token_expires_at |-> Some(2)] }

\* position_sizing_rules of the two strategies: a dict with optional keys
SizingRules(s) ==
    IF s = 1
    THEN [fixed_amount |-> None, percentage_of_capital |-> None,
          fixed_quantity |-> Some(2)]
    ELSE [fixed_amount |-> None, percentage_of_capital |-> None,
          fixed_quantity |-> None]

\* today's filled / partially filled trades of the user that precede the
\* run (their number and the sum of their negative net_pnl, as a positive
\* amount) and the user's position in the alert's symbol (None: no row)
RiskRows ==
    { [count |-> 0, loss |-> 0, position |-> None],
      [count |-> 49, loss |-> 0, position |-> None],
      [count |-> 50, loss |-> 0, position |-> None],
      [count |-> 3, loss |-> 5000, position |-> None],
      [count |-> 50, loss |-> 5000, position |-> Some(1)],
      [count |-> 0, loss |-> 0, position |-> Some(1)],
      [count |-> 0, loss |-> 0, position |-> Some(-1)] }

\* locals of an _execute_trade call: the sized quantity, the price fetched
\* for the risk check, the risk check's result, and what the call did
NoCall ==
    [strategy_id |-> 0,
     market |-> "none",          \* the market-status request's outcome
     should_execute |-> FALSE,   \* what _should_execute_trade returned
     sized |-> FALSE, quantity |-> 0,
     price_fetched |-> FALSE, current_price |-> None,
     risk_checked |-> FALSE, risk_ok |-> FALSE, risk_message |-> "none",
     risk_raised |-> FALSE,
     created |-> FALSE,          \* a Trade object was constructed
     success |-> FALSE,          \* what the executor returned
     orders |-> 0,               \* order placements sent to the broker
     returned |-> "none"]        \* "True", "False" once the call returned

\* locals of an invocation that has not started
IdleInv ==
    [alert_id |-> UnknownAlertId,
     status |-> "none",          \* alert.status of the in-memory object
     loaded |-> "none",          \* alert.status as last read or committed
     loaded_message |-> "none",  \* alert.error_message as last read or committed
     error_message |-> "none",   \* alert.error_message of the in-memory object
     strategies |-> <<>>,        \* the active strategies, as loaded
     total_trades |-> [s \in StrategyIds |-> 0],  \* in-memory strategy.total_trades
     dirty |-> {},               \* strategies whose total_trades was assigned
     idx |-> 0,                  \* position of the for loop
     trades_executed |-> 0,
     trade |-> None,             \* the Trade object of the current _execute_trade
     call |-> NoCall,            \* locals of the current or last _execute_trade
     result |-> "none",          \* return value: "True", "False"; "raised"
     \* bookkeeping for the properties
     found |-> "none",           \* alert.status found by the load
     handled |-> FALSE,          \* an exception reached the top-level handler
     absorbed |-> FALSE,         \* an exception was caught below the top level
     exec_true |-> 0,            \* _execute_trade calls that returned true
     created |-> 0,              \* Trade objects constructed
     commits |-> 0,              \* commits that succeeded
     broker_calls |-> 0,         \* requests sent to the broker
     orders |-> 0,               \* order placements sent to the broker
     via_processing |-> FALSE]   \* the invocation persisted status processing

\* the user and the symbol of the alerts
UserId == 1
AlertSymbol == "NSE:SBIN-EQ"

AlertRows ==
    { [alert_type |-> t, is_scan_alert |-> s, status |-> "received",
       error_message |-> "none", user_id |-> UserId, symbol |-> AlertSymbol] :
        t \in AlertType, s \in BOOLEAN }

StrategyRows(active, paper) ==
    [s \in StrategyIds |->
        [is_active |-> active[s], is_paper_trading |-> paper[s],
         position_sizing_rules |-> SizingRules(s),
         max_position_size |-> None,
         total_trades |-> 0]]

InitEngine ==
    /\ dbTrades = <<>>
    /\ now = 2
    /\ ordersPlaced = 0
    /\ pc = [p \in Procs |-> "idle"]
    /\ inv = [p \in Procs |-> IdleInv]
    /\ runs = 0
    /\ uts = [calls |-> 0, trade_id |-> 0, result |-> "none", raised |-> FALSE,
              queried |-> FALSE, changed |-> FALSE, applied |-> FALSE,
              order_data |-> [data |-> FALSE, status |-> "open",
                              filledQty |-> None, avgPrice |-> None]]

\* no _calculate_position_size call on its own
NoSizing ==
    [rules |-> [fixed_amount |-> None, percentage_of_capital |-> None,
                fixed_quantity |-> None],
     strategy_max |-> None, price |-> None,
     funds |-> [raises |-> FALSE, fund_limit |-> 0],
     done |-> FALSE, raw |-> None, quantity |-> 0]

\* the two queues of the application
QueueNames == {"trade_execution", "alert_processing"}

\* empty queues, the loop at its first statement
NoBackground ==
    [queues |-> [q \in QueueNames |-> <<>>],  \* task ids, lowest score first
     at |-> "dequeue_trade",     \* the statement the loop is at
     task |-> 0,                 \* the task dequeued last, 0 for none
     enqueued |-> 0,             \* tasks enqueued so far
     errors |-> 0,               \* dequeues that raised inside dequeue_task
     log |-> <<>>]               \* the tasks handled, with their outcomes

\* the users whose broker clients the engine caches
ClientUsers == {1, 2}

\* the engine as constructed (line 96): no client cached
NoClients ==
    [cache |-> [u \in ClientUsers |-> None],   \* _fyers_clients
     access_token |-> [u \in ClientUsers |-> 1], \* user.fyers_access_token, as stored
     created |-> [u \in ClientUsers |-> 0],    \* FyersClient objects made for the user
     handed |-> [u \in ClientUsers |-> {}],    \* the handles the calls returned
     calls |-> 0,                              \* _get_fyers_client calls so far
     closed |-> FALSE,                         \* close_all_clients has run
     last |-> None]                            \* the last call and what it got

\* a Strategy row with the column defaults of its performance metrics
\* (strategy.py 51-55), no update_performance_metrics call yet
NoMetrics ==
    [strategy |-> [total_trades |-> 0, winning_trades |-> 0, losing_trades |-> 0,
                   total_pnl |-> 0, max_drawdown |-> 0, last_executed_at |-> None],
     calls |-> 0,                \* update_performance_metrics calls so far
     trade_pnl |-> 0,            \* the arguments of the last call
     is_winning |-> FALSE]

\* the active users the signal handler finds (chartlink.py 296-298)
ActiveUsers == {1, 2}

\* the alerts the signals can create: one per signal and active user
SignalAlertIds == 1..(MaxSignals * Cardinality(ActiveUsers))

\* the id of the alert that signal number `signal` creates for `user`
signal_alert_id(signal, user) == (signal - 1) * Cardinality(ActiveUsers) + user

\* what the broker can finally report for an order
FinalOrderStatus == {"filled", "cancelled", "rejected"}

\* no webhook request yet, no alert row, both queues empty, the consumer
\* between two tasks
NoWebhook ==
    [requests |-> 0,                              \* signals received so far
     at |-> "idle",                               \* the handler's next statement
     user |-> 0,                                  \* the user of the for loop
     session |-> {},                              \* alerts flushed, not committed
     rows |-> [a \in SignalAlertIds |-> "none"],   \* committed Alert.status
     alert_queue |-> <<>>,                        \* queue:alert_processing
     trade_queue |-> <<>>,                        \* queue:trade_execution
     held |-> None,                               \* the task the consumer took
     loop |-> "trade_execution",                  \* the consumer's next statement
     outcome |-> [a \in SignalAlertIds |-> "none"], \* what process_alert found
     trade |-> [a \in SignalAlertIds |-> "none"],  \* status of the alert's live Trade
     order |-> [a \in SignalAlertIds |-> "none"]]  \* the order's status at the broker

\* no _make_request call on its own
NoRequest ==
    [endpoint |-> "none",
     attempts |-> 0,             \* HTTP requests sent
     replies |-> <<>>,           \* what each of them met
     created |-> 0,              \* orders the requests created at the broker
     surfaced |-> "pending"]     \* "returned", or the exception the caller sees

\* the strategies of the user: each inactive, active on paper, or active live
StrategySetups ==
    { StrategyRows(m[1], m[2]) :
        m \in { x \in [StrategyIds -> BOOLEAN] \X [StrategyIds -> BOOLEAN] :
                  \A s \in StrategyIds : ~x[1][s] => x[2][s] } }

\* one paper and one live strategy, both active
PaperAndLive == StrategyRows([s \in StrategyIds |-> TRUE], [s \in StrategyIds |-> s = 1])

NoRisk == [count |-> 0, loss |-> 0, position |-> None]

ValidUser ==
    [fyers_access_token |-> Some("token"), fyers_refresh_token |-> Some("refresh"),
     fyers_token_expires_at |-> Some(9)]

BuyAlert ==
    [alert_type |-> "buy", is_scan_alert |-> FALSE, status |-> "received",
     error_message |-> "none", user_id |-> UserId, symbol |-> AlertSymbol]

TradingAlerts == { a \in AlertRows : a.alert_type \in {"buy", "sell"} /\ ~a.is_scan_alert }

\* the stores the runs start from: every alert and user with one strategy
\* setup; every strategy setup and every risk row with a tradable alert of
\* a user with credentials
Stores ==
    { [alert |-> a, user |-> u, strategies |-> PaperAndLive, risk |-> NoRisk] :
        a \in AlertRows, u \in {None} \cup {Some(x) : x \in UserRows} }
    \cup
    { [alert |-> BuyAlert, user |-> Some(ValidUser), strategies |-> st, risk |-> NoRisk] :
        st \in StrategySetups }
    \cup
    { [alert |-> a, user |-> Some(ValidUser), strategies |-> PaperAndLive, risk |-> k] :
        a \in TradingAlerts, k \in RiskRows }

\* one consumer (the background_task_processor loop of app/main.py)
Init ==
    /\ \E store \in Stores :
        /\ dbAlert = [a \in OneAlert |-> store.alert]
        /\ dbUser = store.user
        /\ dbStrategy = store.strategies
        /\ dbRisk = store.risk
    /\ consumers = 1
    /\ InitEngine
    /\ sz = NoSizing
    /\ rq = NoRequest
    /\ bg = NoBackground
    /\ fc = NoClients
    /\ pm = NoMetrics
    /\ wh = NoWebhook

\* ---------------------------------------------------------------------
\* Broker client (app/services/fyers_client.py)
\* ---------------------------------------------------------------------

\* FyersClient.is_market_open: a failed status request is caught in the
\* client and reported as "not open"
is_market_open(reply) ==
    IF reply = "error" THEN FALSE ELSE reply = "open"

\* `not current_price`: None and 0 are both falsy
Falsy(price) == price = None \/ Val(price) = 0

\* ---------------------------------------------------------------------
\* RiskManager.check_risk_limits
\* ---------------------------------------------------------------------

Abs(x) == IF x < 0 THEN -x ELSE x
Min(x, y) == IF x < y THEN x ELSE y
Max(x, y) == IF x > y THEN x ELSE y

\* today's filled / partially filled trades of the user: the earlier ones
\* and those of the trade rows the engine wrote
DailyTradeCount ==
    dbRisk.count +
    Cardinality({ i \in 1..Len(dbTrades) :
                    dbTrades[i].status \in {"filled", "partially_filled"} })

\* faulty variant: a query that raises lets the trade through
check_risk_limits_fail_open(trades_ok, portfolio_ok, daily_trades, daily_loss, portfolio, side, quantity, price) ==
    IF ~trades_ok \/ ~portfolio_ok
    THEN [allowed |-> TRUE, reason |-> "Risk check error", raised |-> TRUE]
    ELSE [allowed |-> daily_trades < max_daily_trades,
          reason |-> "Risk checks passed", raised |-> FALSE]

\* faulty variant: the position size is checked before the daily figures
check_risk_limits_size_first(trades_ok, portfolio_ok, daily_trades, daily_loss, portfolio, side, quantity, price) ==
    IF ~trades_ok THEN [allowed |-> FALSE, reason |-> "Risk check error", raised |-> TRUE]
    ELSE IF quantity * price > max_position_size
        THEN [allowed |-> FALSE, reason |-> "Position size exceeds limit", raised |-> FALSE]
    ELSE IF daily_trades >= max_daily_trades
        THEN [allowed |-> FALSE, reason |-> "Daily trade limit exceeded", raised |-> FALSE]
    ELSE IF Abs(-daily_loss) >= max_daily_loss
        THEN [allowed |-> FALSE, reason |-> "Daily loss limit exceeded", raised |-> FALSE]
    ELSE IF ~portfolio_ok THEN [allowed |-> FALSE, reason |-> "Risk check error", raised |-> TRUE]
    ELSE IF /\ portfolio # None
            /\ Abs(Val(portfolio) + (IF side = "buy" THEN quantity ELSE -quantity))
                   * price > max_position_size
        THEN [allowed |-> FALSE, reason |-> "Total position size would exceed limit", raised |-> FALSE]
    ELSE [allowed |-> TRUE, reason |-> "Risk checks passed", raised |-> FALSE]

\* faulty variant: the value of the trade itself is not compared with
\* max_position_size
check_risk_limits_value_unchecked(trades_ok, portfolio_ok, daily_trades, daily_loss, portfolio, side, quantity, price) ==
    IF ~trades_ok THEN [allowed |-> FALSE, reason |-> "Risk check error", raised |-> TRUE]
    ELSE IF daily_trades >= max_daily_trades
        THEN [allowed |-> FALSE, reason |-> "Daily trade limit exceeded", raised |-> FALSE]
    ELSE IF Abs(-daily_loss) >= max_daily_loss
        THEN [allowed |-> FALSE, reason |-> "Daily loss limit exceeded", raised |-> FALSE]
    ELSE IF ~portfolio_ok THEN [allowed |-> FALSE, reason |-> "Risk check error", raised |-> TRUE]
    ELSE IF /\ portfolio # None
            /\ Abs(Val(portfolio) + (IF side = "buy" THEN quantity ELSE -quantity))
                   * price > max_position_size
        THEN [allowed |-> FALSE, reason |-> "Total position size would exceed limit", raised |-> FALSE]
    ELSE [allowed |-> TRUE, reason |-> "Risk checks passed", raised |-> FALSE]

\* trades_ok, portfolio_ok: whether the two queries return (TRUE) or raise
check_risk_limits(trades_ok, portfolio_ok, daily_trades, daily_loss, portfolio, side, quantity, price) ==
    IF ~trades_ok THEN [allowed |-> FALSE, reason |-> "Risk check error", raised |-> TRUE]
    ELSE IF daily_trades >= max_daily_trades
        THEN [allowed |-> FALSE, reason |-> "Daily trade limit exceeded", raised |-> FALSE]
    ELSE IF Abs(-daily_loss) >= max_daily_loss
        THEN [allowed |-> FALSE, reason |-> "Daily loss limit exceeded", raised |-> FALSE]
    ELSE IF quantity * price > max_position_size
        THEN [allowed |-> FALSE, reason |-> "Position size exceeds limit", raised |-> FALSE]
    ELSE IF ~portfolio_ok THEN [allowed |-> FALSE, reason |-> "Risk check error", raised |-> TRUE]
    ELSE IF /\ portfolio # None
            /\ Abs(Val(portfolio) + (IF side = "buy" THEN quantity ELSE -quantity))
                   * price > max_position_size
        THEN [allowed |-> FALSE, reason |-> "Total position size would exceed limit", raised |-> FALSE]
    ELSE [allowed |-> TRUE, reason |-> "Risk checks passed", raised |-> FALSE]

\* ---------------------------------------------------------------------
\* TradeEngine._should_execute_trade, _calculate_position_size
\* ---------------------------------------------------------------------

\* faulty variant: the alert type is not looked at
should_execute_trade_any_type(alert_type, is_paper_trading, market) ==
    is_paper_trading \/ market = "open"

\* market: the outcome of the market-status request (made for live
\* strategies only)
should_execute_trade(alert_type, is_paper_trading, market) ==
    IF alert_type \notin {"buy", "sell"} THEN FALSE
    ELSE IF is_paper_trading THEN TRUE
    ELSE IF ~is_market_open(market) THEN FALSE
    ELSE TRUE

\* whether _should_execute_trade sends the market-status request
AsksMarket(alert_type, is_paper_trading) ==
    alert_type \in {"buy", "sell"} /\ ~is_paper_trading

\* IEEE-754 doubles: the (available_funds, percentage) pairs of the model
\* for which the product available_funds * (percentage / 100) of line 317
\* is smaller than the exact one (100 * 0.29 = 28.999999999999996,
\* 50000 * 0.29 = 14499.999999999998); for the other pairs it is exact
RoundedBelow == { <<100, 29>>, <<50000, 29>> }

\* line 317: available_funds * (percentage / 100), in thousandths, rounded
\* towards zero
percentage_amount(available_funds, percentage) ==
    available_funds * percentage * 10
        - (IF <<available_funds, percentage>> \in RoundedBelow THEN 1 ELSE 0)

\* lines 312-324: the quantity of the sizing rules, before the cap and the
\* floor; int() of a quotient of non-negative numbers; current_price > 0
raw_quantity(rules, available_funds, current_price) ==
    IF rules.fixed_amount # None
        THEN Val(rules.fixed_amount) \div current_price
    ELSE IF rules.percentage_of_capital # None
        THEN percentage_amount(available_funds, Val(rules.percentage_of_capital))
                \div (1000 * current_price)
    ELSE IF rules.fixed_quantity # None
        THEN Val(rules.fixed_quantity)
    ELSE available_funds \div (100 * current_price)

\* faulty variant: the strategy's max_position_size is not applied
capped_quantity_uncapped(quantity, strategy_max, current_price) == quantity

\* lines 327-329: the strategy's cap
capped_quantity(quantity, strategy_max, current_price) ==
    IF strategy_max # None /\ Val(strategy_max) # 0
    THEN Min(quantity, Val(strategy_max) \div current_price)
    ELSE quantity

\* the quantity of the sizing rules, capped and floored (lines 309-334);
\* current_price > 0
sized_quantity(rules, strategy_max, available_funds, current_price) ==
    Max(capped_quantity(raw_quantity(rules, available_funds, current_price),
                        strategy_max, current_price), 1)

\* price: get_current_price's reply; funds: get_funds' outcome
calculate_position_size(rules, strategy_max, price, funds) ==
    IF Falsy(price) THEN 0
    ELSE IF funds.raises THEN 0
    ELSE sized_quantity(rules, strategy_max, funds.fund_limit, Val(price))

\* ---------------------------------------------------------------------
\* Alert transitions (app/models/alert.py) on the in-memory object
\* ---------------------------------------------------------------------

mark_as_processing(r) == [r EXCEPT !.status = "processing"]

mark_as_processed(r) == [r EXCEPT !.status = "processed"]

mark_as_failed(r, error_message) ==
    [r EXCEPT !.status = "failed", !.error_message = error_message]

\* faulty variant: the reason is recorded under the processed status
mark_as_ignored_as_processed(r, reason) ==
    [r EXCEPT !.status = "processed", !.error_message = reason]

mark_as_ignored(r, reason) ==
    [r EXCEPT !.status = "ignored", !.error_message = reason]

\* ---------------------------------------------------------------------
\* The unit of work of an invocation
\* ---------------------------------------------------------------------

\* commit: the UPDATE of the alert row (sent when an attribute differs from
\* what was read or last written), the UPDATEs of the strategies whose
\* total_trades was assigned, the INSERT of the pending Trade
CommittedAlerts(r) ==
    IF r.alert_id \in DOMAIN dbAlert
    THEN [dbAlert EXCEPT ![r.alert_id] =
            [@ EXCEPT !.status = IF r.status # r.loaded THEN r.status ELSE @,
                      !.error_message =
                          IF r.error_message # r.loaded_message
                          THEN r.error_message ELSE @]]
    ELSE dbAlert

CommittedStrategies(r) ==
    [s \in StrategyIds |->
        IF s \in r.dirty
        THEN [dbStrategy[s] EXCEPT !.total_trades = r.total_trades[s]]
        ELSE dbStrategy[s]]

CommittedTrades(r) ==
    IF r.trade # None THEN Append(dbTrades, Val(r.trade)) ELSE dbTrades

\* the in-memory objects after a commit that succeeded
Committed(r) ==
    [r EXCEPT !.loaded = r.status, !.loaded_message = r.error_message,
              !.dirty = {}, !.trade = None, !.commits = @ + 1]

\* the in-memory objects after a commit that raised: the unit of work is
\* rolled back, pending changes are dropped and every attribute is expired
RolledBack(r) ==
    [r EXCEPT !.loaded = "expired", !.loaded_message = "expired",
              !.dirty = {}, !.trade = None,
              !.total_trades = [s \in StrategyIds |-> dbStrategy[s].total_trades]]

\* process_alert's `except Exception` (lines 176-179): the alert is marked
\* failed with the exception's text
Handler(r) == mark_as_failed([r EXCEPT !.handled = TRUE], "exception")

\* faulty variant: a failure of the error-path commit is re-raised
failure_path_result_reraising(commit_ok) == IF commit_ok THEN "False" ELSE "raised"

\* what process_alert returns from its handler (lines 178-183); commit_ok:
\* whether the commit of the failed status succeeded
failure_path_result(commit_ok) == "False"

Goto(p, to, r) ==
    /\ pc' = [pc EXCEPT ![p] = to]
    /\ inv' = [inv EXCEPT ![p] = r]
    /\ sz' = sz
    /\ rq' = rq
    /\ bg' = bg
    /\ fc' = fc
    /\ pm' = pm
    /\ wh' = wh

Return(p, r, value) == Goto(p, "done", [r EXCEPT !.result = value])

\* ---------------------------------------------------------------------
\* TradeEngine.process_alert
\* ---------------------------------------------------------------------

\* lines 107-128: the alert query and what follows up to the first commit
LoadAlert(p) ==
    /\ p <= consumers
    /\ pc[p] = "idle"
    /\ runs < MaxRuns
    /\ runs + uts.calls < MaxCalls
    /\ runs' = runs + 1
    /\ \E alert_id \in AlertIds \cup {UnknownAlertId}, query_ok \in BOOLEAN :
        LET r == [IdleInv EXCEPT !.alert_id = alert_id] IN
        IF ~query_ok
            \* the handler's alert.mark_as_failed fails on the unbound name
            \* and the bare except swallows it
            THEN Return(p, [r EXCEPT !.handled = TRUE], failure_path_result(FALSE))
        ELSE IF alert_id \notin DOMAIN dbAlert
            THEN Return(p, r, "False")
        ELSE
            LET alert == dbAlert[alert_id]
                r1 == [r EXCEPT !.status = alert.status, !.loaded = alert.status,
                                !.error_message = alert.error_message,
                                !.loaded_message = alert.error_message,
                                !.found = alert.status]
            IN  IF is_processed(alert.status)
                    THEN Return(p, r1, "True")
                ELSE IF alert.is_scan_alert
                    THEN Goto(p, "commit_scan",
                              mark_as_ignored(r1, "Scan alert - informational only"))
                ELSE Goto(p, "commit_processing", mark_as_processing(r1))
    /\ UNCHANGED <<dbAlert, dbUser, dbStrategy, dbTrades, dbRisk, now,
                   ordersPlaced, consumers, uts>>

\* a commit of process_alert followed by `return value`; a commit that
\* raises enters the handler
CommitThenReturn(p, at, value) ==
    /\ pc[p] = at
    /\ \E commit_ok \in BOOLEAN :
        IF commit_ok
        THEN /\ dbAlert' = CommittedAlerts(inv[p])
             /\ dbStrategy' = CommittedStrategies(inv[p])
             /\ Return(p, Committed(inv[p]), value)
        ELSE /\ UNCHANGED <<dbAlert, dbStrategy>>
             /\ Goto(p, "error_commit", Handler(RolledBack(inv[p])))
    /\ UNCHANGED <<dbUser, dbTrades, dbRisk, now, ordersPlaced, consumers, runs, uts>>

\* lines 124-125
CommitScan(p) == CommitThenReturn(p, "commit_scan", "True")

\* lines 128-129
CommitProcessing(p) ==
    /\ pc[p] = "commit_processing"
    /\ \E commit_ok \in BOOLEAN :
        IF commit_ok
        THEN /\ dbAlert' = CommittedAlerts(inv[p])
             /\ Goto(p, "load_user",
                     [Committed(inv[p]) EXCEPT !.via_processing = TRUE])
        ELSE /\ UNCHANGED dbAlert
             /\ Goto(p, "error_commit", Handler(RolledBack(inv[p])))
    /\ UNCHANGED <<dbUser, dbStrategy, dbTrades, dbRisk, now, ordersPlaced,
                   consumers, runs, uts>>

\* lines 131-144: the user query and the credential check
LoadUser(p) ==
    /\ pc[p] = "load_user"
    /\ \E query_ok \in BOOLEAN :
        IF ~query_ok
            THEN Goto(p, "error_commit", Handler(inv[p]))
        ELSE IF dbUser = None
            THEN Goto(p, "commit_user_failed",
                      mark_as_failed(inv[p], "User not found"))
        ELSE IF ~has_fyers_credentials(Val(dbUser))
            THEN Goto(p, "commit_user_failed",
                      mark_as_failed(inv[p], "User has no valid Fyers credentials"))
        ELSE Goto(p, "load_strategies", inv[p])
    /\ UNCHANGED <<dbAlert, dbUser, dbStrategy, dbTrades, dbRisk, now,
                   ordersPlaced, consumers, runs, uts>>

\* lines 138-139 and 143-144
CommitUserFailed(p) == CommitThenReturn(p, "commit_user_failed", "False")

\* lines 146-157: the strategy query
LoadStrategies(p) ==
    /\ pc[p] = "load_strategies"
    /\ \E query_ok \in BOOLEAN :
        LET active == SelectSeq(<<1, 2>>, LAMBDA s : dbStrategy[s].is_active)
            r == [inv[p] EXCEPT
                    !.strategies = active,
                    !.total_trades = [s \in StrategyIds |-> dbStrategy[s].total_trades],
                    !.trades_executed = 0,
                    !.idx = 1]
        IN  IF ~query_ok
                THEN Goto(p, "error_commit", Handler(inv[p]))
            ELSE IF active = <<>>
                THEN Goto(p, "commit_no_strategies",
                          mark_as_ignored(r, "No active strategies found"))
            ELSE Goto(p, "should_execute", r)
    /\ UNCHANGED <<dbAlert, dbUser, dbStrategy, dbTrades, dbRisk, now,
                   ordersPlaced, consumers, runs, uts>>

\* lines 155-157
CommitNoStrategies(p) == CommitThenReturn(p, "commit_no_strategies", "True")

\* faulty variant: the alert is concluded processed whatever was executed
conclude_always_processed(r) == [r EXCEPT !.status = "processed"]

\* lines 167-171: the alert's outcome once the loop is over
conclude(r) ==
    IF r.trades_executed > 0
    THEN mark_as_processed(r)
    ELSE mark_as_ignored(r, "No trades executed")

\* line 161: the next strategy of the loop, or its end
NextStrategy(p, r) ==
    IF r.idx < Len(r.strategies)
    THEN Goto(p, "should_execute", [r EXCEPT !.idx = @ + 1])
    ELSE Goto(p, "commit_final", conclude(r))

\* lines 163-165: _execute_trade returned `success`
ExecuteReturned(p, r, success) ==
    NextStrategy(p,
        [r EXCEPT !.trades_executed = IF success THEN @ + 1 ELSE @,
                  !.exec_true = IF success THEN @ + 1 ELSE @,
                  !.trade = None,
                  !.call.returned = IF success THEN "True" ELSE "False"])

Strategy(p) == inv[p].strategies[inv[p].idx]

\* line 162 with _should_execute_trade (lines 185-211)
ShouldExecuteTrade(p) ==
    /\ pc[p] = "should_execute"
    /\ LET alert_type == dbAlert[inv[p].alert_id].alert_type
           is_paper == dbStrategy[Strategy(p)].is_paper_trading
           asks == AsksMarket(alert_type, is_paper)
       IN \E market \in IF asks THEN MarketReplies ELSE {"open"} :
            LET r == [inv[p] EXCEPT
                        !.broker_calls = IF asks THEN @ + 1 ELSE @,
                        !.call = [NoCall EXCEPT
                            !.strategy_id = Strategy(p),
                            !.market = IF asks THEN market ELSE "none",
                            !.should_execute =
                                should_execute_trade(alert_type, is_paper, market)]]
            IN  IF should_execute_trade(alert_type, is_paper, market)
                THEN Goto(p, "size", r)
                ELSE NextStrategy(p, r)
    /\ UNCHANGED <<dbAlert, dbUser, dbStrategy, dbTrades, dbRisk, now,
                   ordersPlaced, consumers, runs, uts>>

\* ---------------------------------------------------------------------
\* TradeEngine._execute_trade
\* ---------------------------------------------------------------------

\* faulty variant: a quantity of zero is let through
quantity_check_negative_only(quantity) == IF quantity < 0 THEN "abort" ELSE "proceed"

\* lines 227-243: the three checks before a Trade is constructed, in the
\* order of the code; "proceed" when all pass
quantity_check(quantity) == IF quantity <= 0 THEN "abort" ELSE "proceed"

price_check(current_price) == IF Falsy(current_price) THEN "abort" ELSE "proceed"

risk_gate(risk_ok) == IF ~risk_ok THEN "abort" ELSE "proceed"

\* lines 222-229: the position size (two broker requests) and its check
CalculatePositionSize(p) ==
    /\ pc[p] = "size"
    /\ \E price \in PriceReplies, funds \in FundsReplies :
        LET strategy == dbStrategy[Strategy(p)]
            quantity == calculate_position_size(strategy.position_sizing_rules,
                                                strategy.max_position_size,
                                                price, funds)
            r == [inv[p] EXCEPT
                    !.call.sized = TRUE,
                    !.call.quantity = quantity,
                    !.absorbed = @ \/ (~Falsy(price) /\ funds.raises),
                    !.broker_calls = @ + (IF Falsy(price) THEN 1 ELSE 2)]
        IN  IF quantity_check(quantity) = "abort"
            THEN ExecuteReturned(p, r, FALSE)
            ELSE Goto(p, "risk", r)
    /\ UNCHANGED <<dbAlert, dbUser, dbStrategy, dbTrades, dbRisk, now,
                   ordersPlaced, consumers, runs, uts>>

\* faulty variant: every trade is a buy
trade_side_always_buy(alert_type) == "buy"

\* line 252
trade_side(alert_type) == IF alert_type = "buy" THEN "buy" ELSE "sell"

\* lines 246-258: the Trade object; user.id is the alert's user_id by the
\* query of line 132
NewTrade(alert_id, alert, strategy_id, quantity, current_price) ==
    [user_id |-> alert.user_id,
     alert_id |-> alert_id,
     strategy_id |-> strategy_id,
     symbol |-> alert.symbol,
     side |-> trade_side(alert.alert_type),
     order_type |-> "market",
     quantity |-> quantity,
     price |-> current_price,
     status |-> "pending",
     status_log |-> <<"pending">>,
     filled_quantity |-> 0,
     average_price |-> None,
     fyers_order_id |-> None,
     fyers_status |-> None,
     submitted_at |-> None,
     filled_at |-> None,
     cancelled_at |-> None]

\* lines 231-258: the current price, the risk check, the Trade object
RiskCheck(p) ==
    /\ pc[p] = "risk"
    /\ \E price \in PriceReplies, trades_ok \in BOOLEAN, portfolio_ok \in BOOLEAN :
        LET alert == dbAlert[inv[p].alert_id]
            r1 == [inv[p] EXCEPT !.call.price_fetched = TRUE,
                                 !.call.current_price = price,
                                 !.broker_calls = @ + 1]
        IN  IF price_check(price) = "abort"
            THEN ExecuteReturned(p, r1, FALSE)
            ELSE
              LET risk == check_risk_limits(trades_ok, portfolio_ok,
                              DailyTradeCount, dbRisk.loss, dbRisk.position,
                              alert.alert_type, inv[p].call.quantity, Val(price))
                  r2 == [r1 EXCEPT !.call.risk_checked = TRUE,
                                   !.call.risk_ok = risk.allowed,
                                   !.call.risk_message = risk.reason,
                                   !.call.risk_raised = risk.raised,
                                   !.absorbed = @ \/ risk.raised]
              IN  IF risk_gate(risk.allowed) = "abort"
                  THEN ExecuteReturned(p, r2, FALSE)
                  ELSE Goto(p, "flush",
                            [r2 EXCEPT
                               !.trade = Some(NewTrade(inv[p].alert_id, alert,
                                                Strategy(p), inv[p].call.quantity, price)),
                               !.call.created = TRUE,
                               !.created = @ + 1])
    /\ UNCHANGED <<dbAlert, dbUser, dbStrategy, dbTrades, dbRisk, now,
                   ordersPlaced, consumers, runs, uts>>

\* lines 260-261: db.add and db.flush; a flush that raises is caught by
\* _execute_trade's handler (lines 285-287)
FlushTrade(p) ==
    /\ pc[p] = "flush"
    /\ \E flush_ok \in BOOLEAN :
        IF flush_ok
        THEN Goto(p, "execute", inv[p])
        ELSE ExecuteReturned(p, [inv[p] EXCEPT !.absorbed = TRUE], FALSE)
    /\ UNCHANGED <<dbAlert, dbUser, dbStrategy, dbTrades, dbRisk, now,
                   ordersPlaced, consumers, runs, uts>>

\* _execute_paper_trade (lines 340-358): the trade after the simulated fill
execute_paper_trade(trade) ==
    update_execution(trade, trade.quantity, Val(trade.price), "filled")

\* _execute_live_trade (lines 360-399): the trade after the placement;
\* order_id: the id the broker gave the order
execute_live_trade(trade, reply, order_id) ==
    IF reply = "data"
    THEN [trade EXCEPT !.fyers_order_id = Some(order_id),
                       !.fyers_status = Some("pending")]
    ELSE trade

\* lines 269-279: the status _execute_trade gives the trade once the
\* executor has returned
\* faulty variant: the trade is submitted whatever the executor returned
executed_status_always_submitted(success) == "submitted"

\* faulty variant: a trade whose executor failed keeps its status
executed_status_unset_on_failure(success) == IF success THEN "submitted" ELSE "pending"

executed_status(success) == IF success THEN "submitted" ELSE "failed"

\* lines 263-280: the executor, then the status of the trade and the
\* strategy's counter
ExecuteOrder(p) ==
    /\ pc[p] = "execute"
    /\ LET strategy_id == Strategy(p)
           is_paper == dbStrategy[strategy_id].is_paper_trading
           trade == Val(inv[p].trade)
       IN \E reply \in IF is_paper THEN {"data"} ELSE OrderReplies :
            LET success == is_paper \/ reply = "data"
                accepted == ~is_paper /\ reply = "data"
                executed == IF is_paper THEN execute_paper_trade(trade)
                            ELSE execute_live_trade(trade, reply, ordersPlaced + 1)
                final == IF success
                         THEN [set_status(executed, executed_status(success))
                                  EXCEPT !.submitted_at = Some(now)]
                         ELSE set_status(executed, executed_status(success))
                r == [inv[p] EXCEPT
                        !.trade = Some(final),
                        !.total_trades[strategy_id] = IF success THEN @ + 1 ELSE @,
                        !.dirty = IF success THEN @ \cup {strategy_id} ELSE @,
                        !.absorbed = @ \/ (~is_paper /\ reply = "api_error"),
                        !.broker_calls = IF is_paper THEN @ ELSE @ + 1,
                        !.orders = IF is_paper THEN @ ELSE @ + 1,
                        !.call.success = success,
                        !.call.orders = IF is_paper THEN @ ELSE @ + 1]
            IN  /\ ordersPlaced' = IF accepted THEN ordersPlaced + 1 ELSE ordersPlaced
                /\ Goto(p, "commit_trade", r)
    /\ UNCHANGED <<dbAlert, dbUser, dbStrategy, dbTrades, dbRisk, now,
                   consumers, runs, uts>>

\* lines 282-287: the commit of the trade, the strategy and the alert; a
\* commit that raises is caught by _execute_trade's handler
CommitTrade(p) ==
    /\ pc[p] = "commit_trade"
    /\ \E commit_ok \in BOOLEAN :
        IF commit_ok
        THEN /\ dbAlert' = CommittedAlerts(inv[p])
             /\ dbStrategy' = CommittedStrategies(inv[p])
             /\ dbTrades' = CommittedTrades(inv[p])
             /\ ExecuteReturned(p, Committed(inv[p]), inv[p].call.success)
        ELSE /\ UNCHANGED <<dbAlert, dbStrategy, dbTrades>>
             /\ ExecuteReturned(p, [RolledBack(inv[p]) EXCEPT !.absorbed = TRUE], FALSE)
    /\ UNCHANGED <<dbUser, dbRisk, now, ordersPlaced, consumers, runs, uts>>

\* lines 173-174
CommitFinal(p) == CommitThenReturn(p, "commit_final", "True")

\* lines 178-183: the commit of the failed status, its failure swallowed
ErrorCommit(p) ==
    /\ pc[p] = "error_commit"
    /\ \E commit_ok \in BOOLEAN :
        /\ IF commit_ok
           THEN /\ dbAlert' = CommittedAlerts(inv[p])
                /\ dbStrategy' = CommittedStrategies(inv[p])
           ELSE UNCHANGED <<dbAlert, dbStrategy>>
        /\ Return(p, IF commit_ok THEN Committed(inv[p]) ELSE RolledBack(inv[p]),
                  failure_path_result(commit_ok))
    /\ UNCHANGED <<dbUser, dbTrades, dbRisk, now, ordersPlaced, consumers, runs, uts>>

\* process_alert_task (app/main.py, lines 196-201): the call has returned
\* and the consumer goes on
TaskDone(p) ==
    /\ pc[p] = "done"
    /\ Goto(p, "idle", IdleInv)
    /\ UNCHANGED <<dbAlert, dbUser, dbStrategy, dbTrades, dbRisk, now,
                   ordersPlaced, consumers, runs, uts>>

\* ---------------------------------------------------------------------
\* TradeEngine.update_trade_status
\* ---------------------------------------------------------------------

\* str.lower on the status strings of the model
Lower(str) == IF str = "FILLED" THEN "filled" ELSE str

\* what get_orders can return: no order data, or order data with a status
\* and, optionally, fill figures
NoOrderData == [data |-> FALSE, status |-> "open", filledQty |-> None, avgPrice |-> None]

OrderData ==
    { NoOrderData }
    \cup { [data |-> TRUE, status |-> st, filledQty |-> None, avgPrice |-> None] :
             st \in BrokerStatuses }
    \cup { [data |-> TRUE, status |-> "filled", filledQty |-> Some(1),
            avgPrice |-> Some(40001)] }

\* faulty variant: the broker status is compared as reported, not lower-cased
apply_order_status_case_sensitive(trade, order_info) ==
    LET t == [trade EXCEPT !.fyers_status = Some(order_info.status)]
    IN  IF order_info.status = "filled"
        THEN [set_status(t, "filled") EXCEPT
                       !.filled_at = Some(now),
                       !.filled_quantity = IF order_info.filledQty # None
                                           THEN Val(order_info.filledQty)
                                           ELSE trade.quantity,
                       !.average_price = IF order_info.avgPrice # None
                                         THEN order_info.avgPrice
                                         ELSE trade.price]
        ELSE IF order_info.status = "cancelled"
        THEN [set_status(t, "cancelled") EXCEPT !.cancelled_at = Some(now)]
        ELSE IF order_info.status = "rejected"
        THEN set_status(t, "rejected")
        ELSE t

\* lines 425-441: the trade after the broker's order data is applied
apply_order_status(trade, order_info) ==
    LET fyers_status == Lower(order_info.status)
        t == [trade EXCEPT !.fyers_status = Some(order_info.status)]
    IN  IF fyers_status = "filled"
        THEN [set_status(t, "filled") EXCEPT
                       !.filled_at = Some(now),
                       !.filled_quantity = IF order_info.filledQty # None
                                           THEN Val(order_info.filledQty)
                                           ELSE trade.quantity,
                       !.average_price = IF order_info.avgPrice # None
                                         THEN order_info.avgPrice
                                         ELSE trade.price]
        ELSE IF fyers_status = "cancelled"
        THEN [set_status(t, "cancelled") EXCEPT !.cancelled_at = Some(now)]
        ELSE IF fyers_status = "rejected"
        THEN set_status(t, "rejected")
        ELSE t

\* what update_trade_status returns when an exception reaches its handler
\* (lines 447-449)
update_failure_result == "False"

\* line 409: whether the trade has a broker order to ask about
\* faulty variant: trades without a broker order id are reconciled too
has_broker_order_unchecked(trade) == TRUE

has_broker_order(trade) == trade.fyers_order_id # None

\* the whole call: the trade and user queries, the broker's order query,
\* the update and its commit; raises: the step that raises, if any
UpdateTradeStatus ==
    /\ uts.calls < MaxUpdates
    /\ runs + uts.calls < MaxCalls
    /\ consumers = 1 => \A p \in Procs : pc[p] = "idle"
    /\ \E trade_id \in 0..Len(dbTrades),
          raises \in {"none", "trade_query", "user_query", "get_orders", "commit"},
          order_data \in OrderData :
        LET found == trade_id # 0
            has_order == found /\ has_broker_order(dbTrades[trade_id])
            queried == /\ has_order /\ dbUser # None
                       /\ raises \notin {"trade_query", "user_query"}
            updated == /\ queried /\ raises # "get_orders" /\ order_data.data
            outcome ==
                IF raises = "trade_query" THEN update_failure_result
                ELSE IF ~has_order THEN "False"
                ELSE IF raises = "user_query" THEN update_failure_result
                ELSE IF dbUser = None THEN "False"
                ELSE IF raises = "get_orders" THEN update_failure_result
                ELSE IF ~order_data.data THEN "False"
                ELSE IF raises = "commit" THEN update_failure_result
                ELSE "True"
        IN  /\ dbTrades' = IF updated /\ raises # "commit"
                           THEN [dbTrades EXCEPT ![trade_id] =
                                    apply_order_status(@, order_data)]
                           ELSE dbTrades
            /\ uts' = [calls |-> uts.calls + 1, trade_id |-> trade_id,
                       result |-> outcome,
                       raised |-> raises # "none" /\ outcome = update_failure_result
                                  /\ \/ raises = "trade_query"
                                     \/ has_order /\ raises = "user_query"
                                     \/ queried /\ raises = "get_orders"
                                     \/ updated /\ raises = "commit",
                       queried |-> queried,
                       changed |-> dbTrades' # dbTrades,
                       applied |-> updated /\ raises # "commit",
                       order_data |-> IF queried /\ raises # "get_orders"
                                      THEN order_data ELSE NoOrderData]
    /\ now' = now + 1
    /\ UNCHANGED <<dbAlert, dbUser, dbStrategy, dbRisk, ordersPlaced, consumers,
                   pc, inv, runs, sz, rq, bg, fc, pm, wh>>

\* ---------------------------------------------------------------------
\* Specifications
\* ---------------------------------------------------------------------

Next ==
    \/ \E p \in Procs : LoadAlert(p)
    \/ \E p \in Procs : CommitScan(p)
    \/ \E p \in Procs : CommitProcessing(p)
    \/ \E p \in Procs : LoadUser(p)
    \/ \E p \in Procs : CommitUserFailed(p)
    \/ \E p \in Procs : LoadStrategies(p)
    \/ \E p \in Procs : CommitNoStrategies(p)
    \/ \E p \in Procs : ShouldExecuteTrade(p)
    \/ \E p \in Procs : CalculatePositionSize(p)
    \/ \E p \in Procs : RiskCheck(p)
    \/ \E p \in Procs : FlushTrade(p)
    \/ \E p \in Procs : ExecuteOrder(p)
    \/ \E p \in Procs : CommitTrade(p)
    \/ \E p \in Procs : CommitFinal(p)
    \/ \E p \in Procs : ErrorCommit(p)
    \/ \E p \in Procs : TaskDone(p)

\* alert processing by one consumer
Spec == Init /\ [][Next]_vars

\* a few stores that reach every step of the two entry points
FewStores ==
    { [alert |-> BuyAlert, user |-> Some(ValidUser), strategies |-> st, risk |-> NoRisk] :
        st \in { x \in StrategySetups : \E s \in StrategyIds : ~x[s].is_active } }
    \cup
    { [alert |-> [BuyAlert EXCEPT !.is_scan_alert = TRUE], user |-> Some(ValidUser),
       strategies |-> PaperAndLive, risk |-> NoRisk],
      [alert |-> BuyAlert, user |-> None, strategies |-> PaperAndLive, risk |-> NoRisk] }

InitEntry ==
    /\ \E store \in FewStores :
        /\ dbAlert = [a \in OneAlert |-> store.alert]
        /\ dbUser = store.user
        /\ dbStrategy = store.strategies
        /\ dbRisk = store.risk
    /\ consumers = 1
    /\ InitEngine
    /\ sz = NoSizing
    /\ rq = NoRequest
    /\ bg = NoBackground
    /\ fc = NoClients
    /\ pm = NoMetrics
    /\ wh = NoWebhook

NextEntry == Next \/ UpdateTradeStatus

InitOverlap ==
    /\ \E store \in FewStores :
        /\ dbAlert = [a \in AlertIds |-> store.alert]
        /\ dbUser = store.user
        /\ dbStrategy = store.strategies
        /\ dbRisk = store.risk
    /\ consumers = Cardinality(Procs)
    /\ InitEngine
    /\ sz = NoSizing
    /\ rq = NoRequest
    /\ bg = NoBackground
    /\ fc = NoClients
    /\ pm = NoMetrics
    /\ wh = NoWebhook

\* alert processing by two consumers (two instances of the application on
\* one store and one queue): their invocations, for the same alert or for
\* two alerts of the user, overlap
SpecOverlap == InitOverlap /\ [][Next]_vars

\* both entry points of the engine, process_alert and update_trade_status,
\* called by one consumer
SpecEntry == InitEntry /\ [][NextEntry]_vars

\* ---------------------------------------------------------------------
\* _calculate_position_size on its own, over sizing rules, caps, prices and
\* funds
\* ---------------------------------------------------------------------

\* position_sizing_rules: every combination of the three keys
SizingRuleSets ==
    [fixed_amount : {None, Some(10000)},
     percentage_of_capital : {None, Some(5), Some(29)},
     fixed_quantity : {None, Some(0), Some(5)}]

\* strategy.max_position_size
StrategyCaps == {None, Some(0), Some(1000), Some(5000), Some(100000)}

\* get_current_price's replies and get_funds' outcomes
SizingPrices == {None, Some(0), Some(1), Some(29), Some(2500)}
SizingFunds ==
    {[raises |-> TRUE, fund_limit |-> 0]}
    \cup {[raises |-> FALSE, fund_limit |-> f] : f \in {0, 100, 50000}}

InitSizing ==
    /\ dbAlert = [a \in OneAlert |-> BuyAlert]
    /\ dbUser = Some(ValidUser)
    /\ dbStrategy = PaperAndLive
    /\ dbRisk = NoRisk
    /\ consumers = 1
    /\ InitEngine
    /\ \E rules \in SizingRuleSets, strategy_max \in StrategyCaps,
          price \in SizingPrices, funds \in SizingFunds :
        sz = [NoSizing EXCEPT !.rules = rules, !.strategy_max = strategy_max,
                              !.price = price, !.funds = funds]
    /\ rq = NoRequest
    /\ bg = NoBackground
    /\ fc = NoClients
    /\ pm = NoMetrics
    /\ wh = NoWebhook

\* lines 297-338: one call
PositionSize ==
    /\ ~sz.done
    /\ sz' = [sz EXCEPT
                !.done = TRUE,
                !.quantity = calculate_position_size(sz.rules, sz.strategy_max,
                                                     sz.price, sz.funds),
                !.raw = IF Falsy(sz.price) \/ sz.funds.raises THEN None
                        ELSE Some(raw_quantity(sz.rules, sz.funds.fund_limit,
                                               Val(sz.price)))]
    /\ UNCHANGED <<dbAlert, dbUser, dbStrategy, dbTrades, dbRisk, now,
                   ordersPlaced, consumers, pc, inv, runs, uts, rq, bg, fc, pm, wh>>

SpecSizing == InitSizing /\ [][PositionSize]_vars

\* ---------------------------------------------------------------------
\* FyersClient._make_request on its own, under tenacity's @retry
\* ---------------------------------------------------------------------

\* what one HTTP request can meet: a reply with code 200, a transport or
\* HTTP-status error (httpx.HTTPError), a body that is not JSON, a reply
\* whose code is not 200
HttpReplies == {"ok", "http_error", "bad_json", "api_error"}

\* some of the endpoints the client requests
Endpoints == {"GET /funds", "GET /quotes", "GET /market-status", "POST /orders"}

\* lines 72-78: whether the broker had acted on the request when the
\* attempt met `reply`: it has for a reply with code 200 and has not for
\* one it refused with an API error; a transport error (a read timeout,
\* a dropped connection) or an unreadable body can come either before or
\* after the broker handled the request
BrokerActed(reply) ==
    IF reply = "ok" THEN {TRUE}
    ELSE IF reply = "api_error" THEN {FALSE}
    ELSE BOOLEAN

\* lines 163-165, 230-243: the order payload carries no client reference,
\* so each POST /orders the broker acts on creates an order of its own
orders_created(endpoint, acted) == IF endpoint = "POST /orders" /\ acted THEN 1 ELSE 0

\* lines 71-96: what one execution of the function body does with the reply
make_request_body(reply) == IF reply = "ok" THEN "returned" ELSE "FyersAPIError"

\* line 58: stop_after_attempt(3)
stop_after_attempt == 3

\* lines 57-60: @retry is given no `retry` argument, and tenacity then
\* retries on every Exception
retry_on(exception) == TRUE

\* lines 57-60: @retry is given no `reraise` argument: when the attempts
\* are used up tenacity raises its RetryError, which wraps the last exception
exhausted(exception) == "RetryError"

InitRequest ==
    /\ dbAlert = [a \in OneAlert |-> BuyAlert]
    /\ dbUser = Some(ValidUser)
    /\ dbStrategy = PaperAndLive
    /\ dbRisk = NoRisk
    /\ consumers = 1
    /\ InitEngine
    /\ sz = NoSizing
    /\ \E endpoint \in Endpoints : rq = [NoRequest EXCEPT !.endpoint = endpoint]
    /\ bg = NoBackground
    /\ fc = NoClients
    /\ pm = NoMetrics
    /\ wh = NoWebhook

\* one attempt of the decorated function: the request, the body, and
\* tenacity's decision to go round again, to stop or to return
MakeRequestAttempt ==
    /\ rq.surfaced = "pending"
    /\ \E reply \in HttpReplies : \E acted \in BrokerActed(reply) :
        LET outcome == make_request_body(reply)
            attempts == rq.attempts + 1
        IN  rq' = [rq EXCEPT
                    !.attempts = attempts,
                    !.replies = Append(@, reply),
                    !.created = @ + orders_created(rq.endpoint, acted),
                    !.surfaced =
                        IF outcome = "returned" THEN "returned"
                        ELSE IF ~retry_on(outcome) THEN outcome
                        ELSE IF attempts >= stop_after_attempt THEN exhausted(outcome)
                        ELSE "pending"]
    /\ UNCHANGED <<dbAlert, dbUser, dbStrategy, dbTrades, dbRisk, now,
                   ordersPlaced, consumers, pc, inv, runs, uts, sz, bg, fc, pm, wh>>

SpecRequest == InitRequest /\ [][MakeRequestAttempt]_vars

\* ---------------------------------------------------------------------
\* The task queues (app/redis_client.py) and background_task_processor
\* (app/main.py)
\* ---------------------------------------------------------------------

\* how a task's handling can end: the engine returned true or false, or an
\* exception was raised inside process_trade_task / process_alert_task
TaskOutcomes == {"True", "False", "raised"}

InitConsumer ==
    /\ dbAlert = [a \in OneAlert |-> BuyAlert]
    /\ dbUser = Some(ValidUser)
    /\ dbStrategy = PaperAndLive
    /\ dbRisk = NoRisk
    /\ consumers = 1
    /\ InitEngine
    /\ sz = NoSizing
    /\ rq = NoRequest
    /\ bg = NoBackground
    /\ fc = NoClients
    /\ pm = NoMetrics
    /\ wh = NoWebhook

OnlyBackground ==
    UNCHANGED <<dbAlert, dbUser, dbStrategy, dbTrades, dbRisk, now,
                ordersPlaced, consumers, pc, inv, runs, uts, sz, rq, fc, pm, wh>>

\* RedisClient.enqueue_task (lines 57-78): zadd with score priority +
\* timestamp; the callers use one priority, so later tasks sort later
EnqueueTask(queue_name) ==
    /\ bg.enqueued < MaxTasks
    /\ bg' = [bg EXCEPT !.enqueued = @ + 1,
                        !.queues[queue_name] = Append(@, bg.enqueued + 1)]
    /\ OnlyBackground

\* RedisClient.dequeue_task (lines 80-96) as called at main.py 154 and 159:
\* bzpopmin removes and returns the task of lowest score, returns nothing
\* after the timeout on an empty queue; an exception is caught and
\* nothing is returned
DequeueTask(queue_name, here, task_step, next_step) ==
    /\ bg.at = here
    /\ \E raises \in BOOLEAN :
        IF raises
        THEN /\ bg.errors < MaxDequeueErrors
             /\ bg' = [bg EXCEPT !.errors = @ + 1, !.task = 0, !.at = next_step]
        ELSE IF bg.queues[queue_name] = <<>>
        THEN bg' = [bg EXCEPT !.task = 0, !.at = next_step]
        ELSE bg' = [bg EXCEPT !.task = Head(bg.queues[queue_name]),
                              !.queues[queue_name] = Tail(@),
                              !.at = task_step]
    /\ OnlyBackground

\* faulty variant: an exception raised while a task is handled leaves the loop
after_task_unguarded(outcome, next_step) == IF outcome = "raised" THEN "terminated" ELSE next_step

\* main.py 170-185 and 188-203: process_trade_task and process_alert_task
\* catch every Exception and log it, a false result is logged; the loop
\* goes on to its next statement
after_task(outcome, next_step) == next_step

\* main.py 155-156 / 160-161 with process_trade_task / process_alert_task
ProcessTask(queue_name, here, next_step) ==
    /\ bg.at = here
    /\ \E outcome \in TaskOutcomes :
        bg' = [bg EXCEPT
                !.log = Append(@, [id |-> bg.task, queue |-> queue_name,
                                   outcome |-> outcome]),
                !.at = after_task(outcome, next_step)]
    /\ OnlyBackground

\* main.py 154-156
DequeueTradeTask == DequeueTask("trade_execution", "dequeue_trade", "trade_task", "dequeue_alert")
ProcessTradeTask == ProcessTask("trade_execution", "trade_task", "dequeue_alert")

\* main.py 159-161
DequeueAlertTask == DequeueTask("alert_processing", "dequeue_alert", "alert_task", "sleep")
ProcessAlertTask == ProcessTask("alert_processing", "alert_task", "sleep")

\* main.py 164: asyncio.sleep(0.1), then the next round of `while True`
LoopSleep ==
    /\ bg.at = "sleep"
    /\ bg' = [bg EXCEPT !.at = "dequeue_trade"]
    /\ OnlyBackground

\* one statement of the loop
ConsumerStep ==
    \/ DequeueTradeTask
    \/ ProcessTradeTask
    \/ DequeueAlertTask
    \/ ProcessAlertTask
    \/ LoopSleep

NextConsumer ==
    \/ \E queue_name \in QueueNames : EnqueueTask(queue_name)
    \/ ConsumerStep

SpecConsumer == InitConsumer /\ [][NextConsumer]_vars

\* the loop is an asyncio task of the running application: each of its
\* awaits completes (the dequeue has a timeout of one second), so the loop
\* keeps taking steps
SpecConsumerFair == SpecConsumer /\ WF_vars(ConsumerStep)

\* ---------------------------------------------------------------------
\* The broker clients the engine caches (TradeEngine._get_fyers_client)
\* ---------------------------------------------------------------------

\* the places that call _get_fyers_client (lines 223, 299, 420)
ClientCallers == {"_execute_trade", "_calculate_position_size", "update_trade_status"}

\* faulty variant: a client is made at every call
get_fyers_client_uncached(cache, user_id, access_token, handle) == [cache EXCEPT ![user_id] = Some([handle |-> handle, access_token |-> access_token])]

\* lines 100-101: the cache after the call; handle names the FyersClient
\* object made if the user has none
get_fyers_client(cache, user_id, access_token, handle) ==
    IF cache[user_id] = None
    THEN [cache EXCEPT ![user_id] = Some([handle |-> handle, access_token |-> access_token])]
    ELSE cache

OnlyClients ==
    UNCHANGED <<dbAlert, dbUser, dbStrategy, dbTrades, dbRisk, now,
                ordersPlaced, consumers, pc, inv, runs, uts, sz, rq, bg, pm, wh>>

InitClients ==
    /\ dbAlert = [a \in OneAlert |-> BuyAlert]
    /\ dbUser = Some(ValidUser)
    /\ dbStrategy = PaperAndLive
    /\ dbRisk = NoRisk
    /\ consumers = 1
    /\ InitEngine
    /\ sz = NoSizing
    /\ rq = NoRequest
    /\ bg = NoBackground
    /\ fc = NoClients
    /\ pm = NoMetrics
    /\ wh = NoWebhook

\* lines 98-102, called by invocation p at one of the call sites for a
\* user just loaded from the store; the function has no await, so the
\* event loop runs it in one piece
GetFyersClient(p, caller, user_id) ==
    /\ ~fc.closed
    /\ fc.calls < MaxClientCalls
    /\ LET handle == fc.calls + 1
           cache == get_fyers_client(fc.cache, user_id, fc.access_token[user_id], handle)
           client == Val(cache[user_id])
       IN  fc' = [fc EXCEPT
                    !.cache = cache,
                    !.created[user_id] = IF client.handle = handle THEN @ + 1 ELSE @,
                    !.handed[user_id] = @ \cup {client.handle},
                    !.calls = @ + 1,
                    !.last = Some([invocation |-> p, caller |-> caller,
                                   user_id |-> user_id,
                                   handle |-> client.handle,
                                   access_token |-> client.access_token,
                                   stored_token |-> fc.access_token[user_id]])]
    /\ OnlyClients

\* routers/auth.py, authenticate_fyers (lines 255-263) and
\* refresh_access_token (lines 325-335): the user's stored access token is
\* replaced and committed
ReplaceAccessToken(user_id) ==
    /\ ~fc.closed
    /\ fc.access_token[user_id] < MaxTokens
    /\ fc' = [fc EXCEPT !.access_token[user_id] = @ + 1]
    /\ OnlyClients

\* lines 451-455, at shutdown (main.py 55)
CloseAllClients ==
    /\ ~fc.closed
    /\ fc' = [fc EXCEPT !.cache = [u \in ClientUsers |-> None], !.closed = TRUE]
    /\ OnlyClients

NextClients ==
    \/ \E p \in Procs, caller \in ClientCallers, user_id \in ClientUsers :
            GetFyersClient(p, caller, user_id)
    \/ \E user_id \in ClientUsers : ReplaceAccessToken(user_id)
    \/ CloseAllClients

SpecClients == InitClients /\ [][NextClients]_vars

\* ---------------------------------------------------------------------
\* Strategy.update_performance_metrics (app/models/strategy.py)
\* ---------------------------------------------------------------------

\* the profit or loss of a trade
TradePnls == {-100, -50, 0, 100}

\* faulty variant: the drawdown follows the current loss
update_performance_metrics_drawdown_reset(strategy, trade_pnl, is_winning) ==
    LET total_pnl == strategy.total_pnl + trade_pnl
    IN  [strategy EXCEPT
            !.total_trades = @ + 1,
            !.total_pnl = total_pnl,
            !.winning_trades = IF is_winning THEN @ + 1 ELSE @,
            !.losing_trades = IF is_winning THEN @ ELSE @ + 1,
            !.max_drawdown = IF total_pnl < 0 THEN Abs(total_pnl) ELSE @,
            !.last_executed_at = Some(now)]

\* lines 84-98
update_performance_metrics(strategy, trade_pnl, is_winning) ==
    LET total_pnl == strategy.total_pnl + trade_pnl
    IN  [strategy EXCEPT
            !.total_trades = @ + 1,
            !.total_pnl = total_pnl,
            !.winning_trades = IF is_winning THEN @ + 1 ELSE @,
            !.losing_trades = IF is_winning THEN @ ELSE @ + 1,
            !.max_drawdown = IF total_pnl < 0 /\ Abs(total_pnl) > @
                             THEN Abs(total_pnl) ELSE @,
            !.last_executed_at = Some(now)]

InitMetrics == InitClients

\* one call, with any profit or loss and either flag
UpdatePerformanceMetrics ==
    /\ pm.calls < MaxMetricCalls
    /\ \E trade_pnl \in TradePnls, is_winning \in BOOLEAN :
        pm' = [pm EXCEPT
                !.strategy = update_performance_metrics(@, trade_pnl, is_winning),
                !.calls = @ + 1,
                !.trade_pnl = trade_pnl,
                !.is_winning = is_winning]
    /\ UNCHANGED <<dbAlert, dbUser, dbStrategy, dbTrades, dbRisk, now,
                   ordersPlaced, consumers, pc, inv, runs, uts, sz, rq, bg, fc, wh>>

SpecMetrics == InitMetrics /\ [][UpdatePerformanceMetrics]_vars

\* ---------------------------------------------------------------------
\* The signal webhook (app/routers/chartlink.py, _handle_signal_payload),
\* the two queues and the consumer (app/main.py) together
\* ---------------------------------------------------------------------

OnlyWebhook ==
    UNCHANGED <<dbAlert, dbUser, dbStrategy, dbTrades, dbRisk, now,
                ordersPlaced, consumers, pc, inv, runs, uts, sz, rq, bg, fc, pm>>

InitWebhook == InitClients

\* lines 295-308: a signal arrives while no other is being handled; the
\* handler starts its loop over the active users
ReceiveSignal ==
    /\ wh.at = "idle"
    /\ wh.requests < MaxSignals
    /\ wh' = [wh EXCEPT !.requests = @ + 1, !.at = "flush", !.user = 1]
    /\ OnlyWebhook

\* lines 309-333: the Alert object, db.add and db.flush; the row is in the
\* handler's open transaction only. A flush that raises ends the request
\* (lines 352-354) and the transaction is rolled back
FlushAlert ==
    /\ wh.at = "flush"
    /\ \E flush_ok \in BOOLEAN :
        wh' = IF flush_ok
              THEN [wh EXCEPT !.session = @ \cup {signal_alert_id(wh.requests, wh.user)},
                              !.at = "enqueue"]
              ELSE [wh EXCEPT !.session = {}, !.at = "idle", !.user = 0]
    /\ OnlyWebhook

\* lines 335-340: enqueue_task("alert_processing", ...) for the alert just
\* flushed; enqueue_task answers False when Redis fails (redis_client.py
\* 76-78) and the handler does not look at the answer
EnqueueAlertTask ==
    /\ wh.at = "enqueue"
    /\ \E enqueue_ok \in BOOLEAN :
        wh' = [wh EXCEPT
                !.alert_queue = IF enqueue_ok
                                THEN Append(@, signal_alert_id(wh.requests, wh.user))
                                ELSE @,
                !.user = IF wh.user < Cardinality(ActiveUsers) THEN @ + 1 ELSE @,
                !.at = IF wh.user < Cardinality(ActiveUsers) THEN "flush" ELSE "commit"]
    /\ OnlyWebhook

\* line 342: the commit that makes the alert rows visible to other
\* sessions; one that raises ends the request and rolls the rows back
CommitAlerts ==
    /\ wh.at = "commit"
    /\ \E commit_ok \in BOOLEAN :
        wh' = [wh EXCEPT
                !.rows = [a \in SignalAlertIds |->
                            IF commit_ok /\ a \in wh.session THEN "received" ELSE @[a]],
                !.session = {},
                !.at = "idle",
                !.user = 0]
    /\ OnlyWebhook

\* main.py line 159 (redis_client.py 80-96): the consumer takes the task
\* with the lowest score from queue:alert_processing
PopAlertTask ==
    /\ wh.loop = "alert_processing"
    /\ wh.held = None
    /\ wh.alert_queue # <<>>
    /\ wh' = [wh EXCEPT !.held = Some([queue |-> "alert_processing",
                                       id |-> Head(wh.alert_queue)]),
                        !.alert_queue = Tail(@)]
    /\ OnlyWebhook

\* process_alert_task (main.py 188-203) and process_alert in a session of
\* its own: the alert is found only when its row is committed (trade_engine.py
\* 108-114). A found alert is processed; live_order: a live strategy
\* submitted a Trade with a broker order id (lines 270, 384-386); store_ok:
\* the commits of process_alert went through
RunProcessAlert ==
    /\ wh.held # None
    /\ Val(wh.held).queue = "alert_processing"
    /\ LET a == Val(wh.held).id
       IN  \E store_ok \in BOOLEAN, live_order \in BOOLEAN :
            wh' = IF wh.rows[a] = "none"
                  THEN [wh EXCEPT !.held = None, !.loop = "sleep",
                                  !.outcome[a] = "not_found"]
                  ELSE IF ~store_ok
                  THEN [wh EXCEPT !.held = None, !.loop = "sleep",
                                  !.outcome[a] = "store_failed"]
                  ELSE [wh EXCEPT !.held = None, !.loop = "sleep",
                                  !.outcome[a] = "processed",
                                  !.rows[a] = "processed",
                                  !.trade[a] = IF live_order THEN "submitted" ELSE @,
                                  !.order[a] = IF live_order THEN "open" ELSE @]
    /\ OnlyWebhook

\* the broker settles an open order
BrokerSettlesOrder ==
    /\ \E a \in SignalAlertIds, final \in FinalOrderStatus :
        /\ wh.order[a] = "open"
        /\ wh' = [wh EXCEPT !.order[a] = final]
    /\ OnlyWebhook

\* a producer outside this repository puts a trade_execution task for a
\* submitted trade into the queue; no statement of the repository does
\* (enqueue_task is called at chartlink.py 336 and 406 only, both times for
\* alert_processing)
OutsideProducerEnqueuesTradeTask ==
    /\ \E a \in SignalAlertIds :
        /\ wh.trade[a] = "submitted"
        /\ wh.trade_queue = <<>>
        /\ wh' = [wh EXCEPT !.trade_queue = Append(@, a)]
    /\ OnlyWebhook

\* main.py line 154: the consumer takes a task from queue:trade_execution
PopTradeTask ==
    /\ wh.loop = "trade_execution"
    /\ wh.held = None
    /\ wh.trade_queue # <<>>
    /\ wh' = [wh EXCEPT !.held = Some([queue |-> "trade_execution",
                                       id |-> Head(wh.trade_queue)]),
                        !.trade_queue = Tail(@)]
    /\ OnlyWebhook

\* process_trade_task (main.py 170-185) and update_trade_status
\* (trade_engine.py 401-449) on their normal path: the trade takes the
\* status the broker reports when that is filled, cancelled or rejected
\* (the failure paths of the call are those of UpdateTradeStatus above)
RunUpdateTradeStatus ==
    /\ wh.held # None
    /\ Val(wh.held).queue = "trade_execution"
    /\ LET a == Val(wh.held).id
       IN  wh' = [wh EXCEPT
                    !.held = None,
                    !.loop = "alert_processing",
                    !.trade[a] = IF wh.order[a] \in FinalOrderStatus
                                 THEN wh.order[a] ELSE @]
    /\ OnlyWebhook

\* main.py lines 154-155, 159-160: the queue stays empty for the second
\* of the timeout, dequeue_task returns None and the loop goes on
DequeueTimesOut ==
    /\ wh.held = None
    /\ \/ /\ wh.loop = "trade_execution"
          /\ wh.trade_queue = <<>>
          /\ wh' = [wh EXCEPT !.loop = "alert_processing"]
       \/ /\ wh.loop = "alert_processing"
          /\ wh.alert_queue = <<>>
          /\ wh' = [wh EXCEPT !.loop = "sleep"]
    /\ OnlyWebhook

\* main.py line 163: asyncio.sleep(0.1), then the next round of the loop
ConsumerSleeps ==
    /\ wh.loop = "sleep"
    /\ wh' = [wh EXCEPT !.loop = "trade_execution"]
    /\ OnlyWebhook

\* the steps of the signal handler
WebhookStep == ReceiveSignal \/ FlushAlert \/ EnqueueAlertTask \/ CommitAlerts

\* the steps of the consumer of main.py
QueueConsumerStep ==
    \/ PopAlertTask
    \/ RunProcessAlert
    \/ PopTradeTask
    \/ RunUpdateTradeStatus
    \/ DequeueTimesOut
    \/ ConsumerSleeps

NextWebhook ==
    \/ ReceiveSignal
    \/ FlushAlert
    \/ EnqueueAlertTask
    \/ CommitAlerts
    \/ PopAlertTask
    \/ RunProcessAlert
    \/ BrokerSettlesOrder
    \/ OutsideProducerEnqueuesTradeTask
    \/ PopTradeTask
    \/ RunUpdateTradeStatus
    \/ DequeueTimesOut
    \/ ConsumerSleeps

SpecWebhook == InitWebhook /\ [][NextWebhook]_vars

\* the handler and the consumer keep running; the broker and the outside
\* producer owe nothing
SpecWebhookFair == SpecWebhook /\ WF_vars(WebhookStep) /\ WF_vars(QueueConsumerStep)

\* ---------------------------------------------------------------------
\* Properties
\* ---------------------------------------------------------------------

Alert(p) == dbAlert[inv[p].alert_id]

\* the statuses after which an alert is not processed again
Terminal == {"processed", "failed", "ignored"}

\* the invocation has returned, and its alert query found the alert row
Finished(p) == pc[p] = "done" /\ inv[p].found # "none"

\* C1: the persisted status of an alert only moves forward along
\* received -> processing -> {processed, failed, ignored}: no step of any
\* invocation, overlapping ones included, changes a terminal status or takes
\* a status back to an earlier one.
Rank(status) ==
    IF status = "received" THEN 0 ELSE IF status = "processing" THEN 1 ELSE 2

Forward(old, new) == old = new \/ Rank(new) > Rank(old)

C1_StatusOnlyMovesForward ==
    [][\A a \in DOMAIN dbAlert : Forward(dbAlert[a].status, dbAlert'[a].status)]_vars

\* C2: an invocation whose alert query finds the alert processed, failed or
\* ignored returns true at once: it assigns no attribute of the alert,
\* commits nothing, constructs no Trade, touches no strategy and sends
\* nothing to the broker.
C2_TerminalAlertIsNoOp ==
    \A p \in Procs :
        (Finished(p) /\ inv[p].found \in Terminal) =>
            /\ inv[p].result = "True"
            /\ inv[p].status = inv[p].found
            /\ inv[p].commits = 0
            /\ inv[p].created = 0
            /\ inv[p].dirty = {}
            /\ inv[p].strategies = <<>>
            /\ inv[p].broker_calls = 0
            /\ ~inv[p].via_processing

C2_Witness ==
    \E p \in Procs :
        /\ Finished(p) /\ inv[p].found \in Terminal
        /\ inv[p].result = "True"
        /\ Alert(p).status = inv[p].found

\* C3: an invocation that finds a scan alert (is_scan_alert true) not yet
\* terminal never persists processing, constructs no Trade and sends nothing
\* to the broker; unless a store operation raised, the alert is persisted
\* ignored by its single commit and the call returns true.
C3_ScanAlertIgnored ==
    \A p \in Procs :
        (/\ pc[p] # "idle" /\ inv[p].found # "none"
         /\ inv[p].found \notin Terminal
         /\ Alert(p).is_scan_alert) =>
            /\ ~inv[p].via_processing
            /\ inv[p].created = 0
            /\ inv[p].broker_calls = 0
            /\ inv[p].orders = 0
            /\ pc[p] \in {"commit_scan", "error_commit", "done"}
            /\ (pc[p] = "done" /\ ~inv[p].handled) =>
                  /\ inv[p].result = "True"
                  /\ inv[p].commits = 1
                  /\ Alert(p).status = "ignored"

C3_Witness ==
    \E p \in Procs :
        /\ Finished(p) /\ inv[p].found = "received"
        /\ Alert(p).is_scan_alert
        /\ Alert(p).status = "ignored"
        /\ inv[p].result = "True"

\* the owning user exists and has credentials that have not expired
UserOk ==
    /\ dbUser # None
    /\ Val(dbUser).fyers_access_token # None
    /\ Val(dbUser).fyers_refresh_token # None
    /\ Val(dbUser).fyers_token_expires_at # None
    /\ Val(Val(dbUser).fyers_token_expires_at) > now

\* C4: when an invocation for a non-scan alert of a user with valid
\* credentials runs to its end (no exception reached its handler), it
\* returns true and the alert is persisted processed if at least one
\* _execute_trade call of the invocation returned true, ignored otherwise.
C4_ProcessedIffTradeExecuted ==
    \A p \in Procs :
        (/\ Finished(p) /\ inv[p].found \notin Terminal
         /\ ~Alert(p).is_scan_alert /\ UserOk /\ ~inv[p].handled) =>
            /\ inv[p].result = "True"
            /\ Alert(p).status \in {"processed", "ignored"}
            /\ Alert(p).status = "processed" <=> inv[p].exec_true >= 1

C4_Witness ==
    \E p \in Procs :
        /\ Finished(p) /\ UserOk /\ ~inv[p].handled
        /\ Len(inv[p].strategies) = 2
        /\ inv[p].exec_true = 1
        /\ inv[p].call.returned = "False"
        /\ Alert(p).status = "processed"

\* C5: once an invocation has persisted processing, the alert is persisted
\* processed, failed or ignored when the invocation returns, whatever fails
\* afterwards.
C5_NeverLeftProcessing ==
    \A p \in Procs :
        (pc[p] = "done" /\ inv[p].via_processing) => Alert(p).status \in Terminal

C8_NonTradingTypesIgnored ==
    \A p \in Procs :
        (/\ pc[p] # "idle" /\ inv[p].found # "none"
         /\ Alert(p).alert_type \in {"hold", "stop_loss", "take_profit"}) =>
            /\ pc[p] \notin {"size", "risk", "flush", "execute", "commit_trade"}
            /\ inv[p].call.sized = FALSE
            /\ inv[p].created = 0
            /\ inv[p].broker_calls = 0
            /\ inv[p].exec_true = 0
            /\ (pc[p] = "done" /\ inv[p].idx >= 1 /\ ~inv[p].handled) =>
                  /\ Alert(p).status = "ignored"
                  /\ inv[p].result = "True"

C8_Witness ==
    \E p \in Procs :
        /\ Finished(p) /\ Alert(p).alert_type = "hold"
        /\ Len(inv[p].strategies) = 2 /\ inv[p].idx = 2
        /\ ~dbStrategy[2].is_paper_trading
        /\ Alert(p).status = "ignored"
        /\ Alert(p).error_message = "No trades executed"

\* C9: an _execute_trade call whose sized quantity is <= 0, whose current
\* price is unavailable, or whose risk check disallows the trade returns
\* false without constructing a Trade and without placing an order.
Blocked(c) ==
    \/ c.sized /\ c.quantity <= 0
    \/ c.price_fetched /\ Falsy(c.current_price)
    \/ c.risk_checked /\ ~c.risk_ok

C9_AbortedExecutionCreatesNothing ==
    \A p \in Procs :
        Blocked(inv[p].call) =>
            /\ inv[p].call.returned = "False"
            /\ ~inv[p].call.created
            /\ inv[p].call.orders = 0
            /\ inv[p].trade = None
            /\ \A i \in 1..Len(dbTrades) : dbTrades[i].quantity > 0

C9_Witness ==
    \E p \in Procs :
        /\ inv[p].call.risk_checked /\ ~inv[p].call.risk_ok
        /\ inv[p].call.risk_message = "Daily trade limit exceeded"
        /\ ~dbStrategy[inv[p].call.strategy_id].is_paper_trading
        /\ inv[p].call.returned = "False"
        /\ inv[p].created = 0

\* C10: when a query inside check_risk_limits raises, the check answers
\* "not allowed" with an error reason, and the _execute_trade that asked
\* returns false without a Trade and without an order.
C10_RiskCheckFailsClosed ==
    \A p \in Procs :
        inv[p].call.risk_raised =>
            /\ ~inv[p].call.risk_ok
            /\ inv[p].call.risk_message = "Risk check error"
            /\ inv[p].call.returned = "False"
            /\ ~inv[p].call.created
            /\ inv[p].call.orders = 0
            /\ inv[p].trade = None

C10_Witness ==
    \E p \in Procs :
        /\ inv[p].call.risk_raised
        /\ inv[p].call.risk_message = "Risk check error"
        /\ inv[p].call.returned = "False"
        /\ inv[p].created = 0

\* the trade rows of the store
TradeRows == { dbTrades[i] : i \in 1..Len(dbTrades) }

\* C11: every trade that _execute_trade persisted for a paper-trading
\* strategy has status filled, filled_quantity equal to its quantity and
\* average_price equal to its reference price.
C11_PaperTradeFilled ==
    \A t \in TradeRows :
        dbStrategy[t.strategy_id].is_paper_trading =>
            /\ t.status = "filled"
            /\ t.filled_quantity = t.quantity
            /\ t.average_price = t.price

\* C12: the statuses a Trade goes through, in _execute_trade and in any
\* sequence of update_trade_status calls, follow pending -> submitted ->
\* {filled, partially_filled, cancelled, rejected} or pending -> failed:
\* never submitted after filled, and no change after filled, cancelled,
\* rejected or failed.
TradeTransitions ==
    { <<"pending", "submitted">>, <<"pending", "failed">>,
      <<"submitted", "filled">>, <<"submitted", "partially_filled">>,
      <<"submitted", "cancelled">>, <<"submitted", "rejected">>,
      <<"partially_filled", "filled">>, <<"partially_filled", "cancelled">> }

FollowsStateMachine(log) ==
    /\ log[1] = "pending"
    /\ \A k \in 1..(Len(log) - 1) : <<log[k], log[k + 1]>> \in TradeTransitions

C12_TradeStateMachine ==
    /\ \A t \in TradeRows : FollowsStateMachine(t.status_log)
    /\ \A p \in Procs :
        inv[p].trade # None => FollowsStateMachine(Val(inv[p].trade).status_log)

\* the fields of a Trade that reconciliation writes
ReconciledFields(t) ==
    <<t.status, t.filled_quantity, t.average_price, t.filled_at, t.cancelled_at,
      t.fyers_status>>

\* an update_trade_status call that got order data and committed
AppliedCall == uts'.calls = uts.calls + 1 /\ uts'.applied

\* C13: a second update_trade_status call for the same trade, to which the
\* broker reports the same status and fill data as to the first, leaves
\* status, filled_quantity, average_price, filled_at, cancelled_at and the
\* broker status string as the first call left them.
C13_ReconciliationIdempotent ==
    [][(/\ AppliedCall /\ uts.applied
        /\ uts'.trade_id = uts.trade_id
        /\ uts'.order_data = uts.order_data) =>
            ReconciledFields(dbTrades'[uts.trade_id]) =
                ReconciledFields(dbTrades[uts.trade_id])]_vars

\* C14: a call that got order data and committed stores the raw broker
\* status string and maps its lower-cased value: filled -> FILLED with
\* filled_at and the broker's fill figures (the trade's own quantity and
\* price when absent), cancelled -> CANCELLED with cancelled_at, rejected ->
\* REJECTED, anything else leaves the status as it was; it returns true.
C14_BrokerStatusMapping ==
    [][AppliedCall =>
        LET old == dbTrades[uts'.trade_id]
            new == dbTrades'[uts'.trade_id]
            info == uts'.order_data
        IN  /\ uts'.result = "True"
            /\ new.fyers_status = Some(info.status)
            /\ info.status \in {"filled", "FILLED"} =>
                  /\ new.status = "filled"
                  /\ new.filled_at = Some(now)
                  /\ new.filled_quantity =
                        IF info.filledQty # None THEN Val(info.filledQty) ELSE old.quantity
                  /\ new.average_price =
                        IF info.avgPrice # None THEN info.avgPrice ELSE old.price
            /\ info.status = "cancelled" =>
                  /\ new.status = "cancelled"
                  /\ new.cancelled_at = Some(now)
                  /\ new.filled_at = old.filled_at
            /\ info.status = "rejected" =>
                  /\ new.status = "rejected"
                  /\ new.filled_at = old.filled_at /\ new.cancelled_at = old.cancelled_at
            /\ info.status \notin {"filled", "FILLED", "cancelled", "rejected"} =>
                  /\ new.status = old.status
                  /\ new.filled_at = old.filled_at /\ new.cancelled_at = old.cancelled_at
                  /\ new.filled_quantity = old.filled_quantity
                  /\ new.average_price = old.average_price]_vars

C14_Witness ==
    /\ uts.applied /\ uts.result = "True"
    /\ uts.order_data.status = "FILLED" /\ uts.order_data.filledQty = None
    /\ dbTrades[uts.trade_id].status = "filled"
    /\ dbTrades[uts.trade_id].filled_quantity = dbTrades[uts.trade_id].quantity
    /\ dbTrades[uts.trade_id].fyers_status = Some("FILLED")

\* C15: a call for an unknown trade id or for a trade without broker order
\* id returns false, asks the broker nothing and changes no trade row; no
\* trade of a paper-trading strategy has a broker order id.
C15_NothingToReconcile ==
    /\ \A t \in TradeRows :
        dbStrategy[t.strategy_id].is_paper_trading => t.fyers_order_id = None
    /\ (/\ uts.calls > 0
        /\ \/ uts.trade_id = 0
           \/ dbTrades[uts.trade_id].fyers_order_id = None) =>
            /\ uts.result = "False"
            /\ ~uts.queried
            /\ ~uts.changed
            /\ ~uts.applied

C15_Witness ==
    /\ uts.calls > 0 /\ uts.trade_id # 0
    /\ dbStrategy[dbTrades[uts.trade_id].strategy_id].is_paper_trading
    /\ dbTrades[uts.trade_id].fyers_order_id = None
    /\ uts.result = "False" /\ ~uts.raised

\* C16: no trade is persisted in status pending: once _execute_trade has
\* returned, with either result and whether or not the flush, the executor
\* or the commit failed, the Trade it constructed is in the store as
\* submitted or failed, or is not in the store and no longer part of the
\* unit of work.
C16_NoPendingTradePersisted ==
    /\ \A t \in TradeRows : t.status \in {"submitted", "failed"}
    /\ \A p \in Procs :
        /\ inv[p].call.returned # "none" => inv[p].trade = None
        /\ inv[p].trade # None => pc[p] \in {"flush", "execute", "commit_trade"}
        /\ (inv[p].call.returned = "True") =>
              \E t \in TradeRows :
                  t.strategy_id = inv[p].call.strategy_id /\ t.status = "submitted"

C16_Witness ==
    \E p \in Procs :
        /\ inv[p].call.created /\ inv[p].call.success
        /\ inv[p].call.returned = "False"
        /\ inv[p].absorbed
        /\ TradeRows = {}

\* the trades of strategy s that the engine moved to submitted
SubmittedTrades(s) ==
    { i \in 1..Len(dbTrades) :
        /\ dbTrades[i].strategy_id = s
        /\ \E k \in 1..Len(dbTrades[i].status_log) : dbTrades[i].status_log[k] = "submitted" }

\* C17: total_trades of every strategy equals its initial value (0) plus
\* the number of its trades the engine moved to submitted, whatever the
\* interleaving of the invocations that use the strategy.
C17_TotalTradesCountsSubmissions ==
    \A s \in StrategyIds :
        dbStrategy[s].total_trades = Cardinality(SubmittedTrades(s))

\* a sizing call that obtained a price
Priced == sz.done /\ sz.price # None /\ Val(sz.price) # 0

\* the raw quantity by the precedence and the floors of the sizing rules,
\* in exact arithmetic
FlooredQuantity ==
    IF sz.rules.fixed_amount # None
        THEN Val(sz.rules.fixed_amount) \div Val(sz.price)
    ELSE IF sz.rules.percentage_of_capital # None
        THEN (sz.funds.fund_limit * Val(sz.rules.percentage_of_capital))
                \div (100 * Val(sz.price))
    ELSE IF sz.rules.fixed_quantity # None
        THEN Val(sz.rules.fixed_quantity)
    ELSE sz.funds.fund_limit \div (100 * Val(sz.price))

\* C18: with a resolvable price the raw quantity follows the precedence
\* fixed_amount, percentage_of_capital, fixed_quantity, default, and is
\* floor(amount/price), floor(funds*pct/100/price), the fixed quantity or
\* floor(funds*0.01/price) of the first key present.
C18_RawQuantityFollowsRules ==
    (Priced /\ sz.raw # None) => Val(sz.raw) = FlooredQuantity

\* a sizing call whose only sizing key is fixed_quantity
FixedQuantityOnly ==
    /\ sz.rules.fixed_amount = None
    /\ sz.rules.percentage_of_capital = None
    /\ sz.rules.fixed_quantity # None

\* C19 as stated: with fixed_quantity = Q and a resolvable price the result
\* is exactly Q, whatever the funds and the strategy's max_position_size.
C19_FixedQuantityReturnedVerbatim ==
    (Priced /\ FixedQuantityOnly) => sz.quantity = Val(sz.rules.fixed_quantity)

\* Q under the strategy's cap, at least 1
CappedFixedQuantity ==
    LET Q == Val(sz.rules.fixed_quantity)
        capped == IF sz.strategy_max # None /\ Val(sz.strategy_max) # 0
                  THEN Min(Q, Val(sz.strategy_max) \div Val(sz.price))
                  ELSE Q
    IN  Max(capped, 1)

\* C19: with fixed_quantity = Q the only sizing key and a resolvable price,
\* the result does not depend on the amount of available funds: it is 0
\* when the funds query raises, and otherwise Q limited to
\* floor(max_position_size / price) when the strategy has a non-zero
\* max_position_size, and raised to 1 when that is smaller than 1.
C19_FixedQuantityCappedAndFloored ==
    (Priced /\ FixedQuantityOnly) =>
        sz.quantity = IF sz.funds.raises THEN 0 ELSE CappedFixedQuantity

\* a fixed quantity of 5 at price 2500 under max_position_size 5000 gave 2
C19_Witness ==
    /\ Priced /\ FixedQuantityOnly
    /\ sz.rules.fixed_quantity = Some(5)
    /\ sz.strategy_max = Some(5000)
    /\ sz.price = Some(2500)
    /\ ~sz.funds.raises
    /\ sz.quantity = 2

\* C20: whenever the price is resolvable the result is at least 1, for
\* every sizing rule, every funds value and every outcome of the funds query.
C20_QuantityAtLeastOne == Priced => sz.quantity >= 1

\* C21: when the strategy's max_position_size is set (and not zero), the
\* quantity finally returned is at most floor(max_position_size / price):
\* the cap still holds after the minimum of 1 was applied.
C21_CapHoldsAfterFloor ==
    (Priced /\ sz.strategy_max # None /\ Val(sz.strategy_max) # 0) =>
        sz.quantity <= Val(sz.strategy_max) \div Val(sz.price)

\* the strategy of the current _should_execute_trade / _execute_trade call
\* of invocation p trades live
LiveCall(p) ==
    /\ inv[p].call.strategy_id # 0
    /\ ~dbStrategy[inv[p].call.strategy_id].is_paper_trading
    /\ inv[p].alert_id \in DOMAIN dbAlert
    /\ dbAlert[inv[p].alert_id].alert_type \in {"buy", "sell"}

\* C22: for a live strategy and a buy or sell alert, _should_execute_trade
\* returns true when the market-status query fails, and returns false only
\* when the broker reports the market closed.
C22_MarketQueryFailureTolerated ==
    \A p \in Procs :
        LiveCall(p) =>
            /\ inv[p].call.market = "error" => inv[p].call.should_execute
            /\ ~inv[p].call.should_execute => inv[p].call.market = "closed"

\* the strategies that trade live
LiveStrategies == { s \in StrategyIds : ~dbStrategy[s].is_paper_trading }

\* C23: invocations of process_alert that follow one another for the same
\* alert create at most one Trade per (alert, strategy) and place at most
\* one broker order per live strategy: an invocation that follows a
\* returned one creates no Trade and places no order.
C23_RedeliveryCreatesNothing ==
    /\ \A i, j \in DOMAIN dbTrades :
        (/\ dbTrades[i].alert_id = dbTrades[j].alert_id
         /\ dbTrades[i].strategy_id = dbTrades[j].strategy_id) => i = j
    /\ ordersPlaced <= Cardinality(LiveStrategies)

\* the step in which the _execute_trade call of invocation p for a
\* paper-trading strategy returns, its risk check having passed
PaperCallReturns(p) ==
    /\ inv[p].call.returned = "none"
    /\ inv'[p].call.returned # "none"
    /\ inv'[p].call.strategy_id = inv[p].call.strategy_id
    /\ dbStrategy[inv[p].call.strategy_id].is_paper_trading
    /\ inv[p].call.risk_checked /\ inv[p].call.risk_ok

\* the trade of the call of invocation p is the last row of the store
TradeOfCallStored(p) ==
    /\ Len(dbTrades') = Len(dbTrades) + 1
    /\ LET t == dbTrades'[Len(dbTrades')]
           alert == dbAlert[inv[p].alert_id]
       IN  /\ t.alert_id = inv[p].alert_id
           /\ t.strategy_id = inv[p].call.strategy_id
           /\ t.user_id = alert.user_id
           /\ t.symbol = alert.symbol
           /\ alert.alert_type \in {"buy", "sell"}
           /\ t.side = alert.alert_type
           /\ t.quantity = inv[p].call.quantity
           /\ t.price = inv[p].call.current_price

\* C24: for a paper-trading strategy with a price and a passing risk check,
\* _execute_trade returns true and stores exactly one Trade, of the alert,
\* the strategy and the user, with the alert's symbol, side buy for a buy
\* and sell for a sell alert, the sized quantity and the fetched price.
\* Read as the normal flow: asserted for invocations in which no exception
\* was caught (a flush or commit that raises makes the call return false
\* and store nothing, which is asserted as well).
C24_PaperTradeCreated ==
    [][\A p \in Procs :
        PaperCallReturns(p) =>
            /\ ~inv'[p].absorbed => inv'[p].call.returned = "True"
            /\ inv'[p].call.returned = "True" => TradeOfCallStored(p)
            /\ inv'[p].call.returned = "False" => dbTrades' = dbTrades]_vars

\* a paper sell trade was stored by a call that returned true
C24_Witness ==
    \E p \in Procs :
        /\ inv[p].call.strategy_id # 0
        /\ dbStrategy[inv[p].call.strategy_id].is_paper_trading
        /\ inv[p].call.risk_ok /\ inv[p].call.returned = "True"
        /\ ~inv[p].absorbed
        /\ Len(dbTrades) > 0
        /\ dbTrades[Len(dbTrades)].side = "sell"
        /\ dbTrades[Len(dbTrades)].strategy_id = inv[p].call.strategy_id
        /\ dbTrades[Len(dbTrades)].quantity = inv[p].call.quantity

\* the replies of a _make_request call that were failures
FailedReplies(kinds) == { k \in 1..Len(rq.replies) : rq.replies[k] \in kinds }

\* C25: a reply carrying an API-level error (code other than 200) is not
\* retried, so no HTTP request follows it; transport and HTTP-layer
\* failures are attempted at most 3 times in total.
C25_ApiErrorNotRetried ==
    /\ \A k \in FailedReplies({"api_error"}) : k = Len(rq.replies)
    /\ rq.attempts <= 3

\* C26: when every attempt of a _make_request call has failed, the error
\* the caller sees is a FyersAPIError.
C26_ExhaustedSurfacesFyersAPIError ==
    (/\ rq.surfaced # "pending"
     /\ FailedReplies({"http_error", "bad_json", "api_error"}) = 1..Len(rq.replies)) =>
        rq.surfaced = "FyersAPIError"

\* the ids of the tasks
TaskIds == 1..MaxTasks

\* task t waits in a queue; task t was handed to its handler
Queued(t) == \E q \in QueueNames : \E k \in 1..Len(bg.queues[q]) : bg.queues[q][k] = t
Handled(t) == \E k \in 1..Len(bg.log) : bg.log[k].id = t

\* C27: the consumer loop never terminates, and every task present in the
\* trade_execution or alert_processing queue is eventually dequeued and
\* handled, whatever tasks failed and whatever dequeues raised before.
C27_ConsumerLoopSurvives ==
    /\ [](bg.at # "terminated")
    /\ \A t \in TaskIds : Queued(t) ~> Handled(t)

\* a task was handled after an earlier task's handling had raised, another
\* had returned false, and a dequeue had raised
C27_Witness ==
    /\ Len(bg.log) = 3
    /\ bg.log[1].outcome = "raised"
    /\ bg.log[2].outcome = "False"
    /\ bg.errors > 0

\* the step in which the risk check of invocation p's _execute_trade call
\* answers, none of its queries having raised
RiskCheckAnswers(p) ==
    /\ pc[p] = "risk"
    /\ inv'[p].call.risk_checked
    /\ ~inv'[p].call.risk_raised

\* the first of the four limits that the trade of invocation p's call
\* breaks, in the order count, loss, trade value, total position
FirstLimitBroken(p) ==
    LET quantity == inv'[p].call.quantity
        price == Val(inv'[p].call.current_price)
        side == dbAlert[inv[p].alert_id].alert_type
        filled == { i \in 1..Len(dbTrades) :
                      dbTrades[i].status \in {"filled", "partially_filled"} }
        position == IF side = "buy" THEN Val(dbRisk.position) + quantity
                    ELSE Val(dbRisk.position) - quantity
    IN  IF dbRisk.count + Cardinality(filled) >= 50
            THEN "Daily trade limit exceeded"
        ELSE IF dbRisk.loss >= 5000
            THEN "Daily loss limit exceeded"
        ELSE IF quantity * price > 100000
            THEN "Position size exceeds limit"
        ELSE IF dbRisk.position # None /\ (IF position < 0 THEN -position ELSE position) * price > 100000
            THEN "Total position size would exceed limit"
        ELSE "Risk checks passed"

\* C28: check_risk_limits answers with the reason of the first limit broken,
\* in the order daily trade count >= max_daily_trades, daily loss >=
\* max_daily_loss, quantity * price > max_position_size, |position +/-
\* quantity| * price > max_position_size; it allows the trade only when
\* none is broken, and it changes no record.  Asserted for the calls whose
\* queries did not raise.
C28_RiskChecksInOrder ==
    [][\A p \in Procs :
        RiskCheckAnswers(p) =>
            /\ inv'[p].call.risk_message = FirstLimitBroken(p)
            /\ inv'[p].call.risk_ok = (FirstLimitBroken(p) = "Risk checks passed")
            /\ UNCHANGED <<dbAlert, dbUser, dbStrategy, dbTrades, dbRisk>>]_vars

\* the count limit was reported for a user whose daily loss and position
\* break their limits as well
C28_Witness ==
    \E p \in Procs :
        /\ inv[p].call.risk_checked /\ ~inv[p].call.risk_raised
        /\ dbRisk.count >= 50 /\ dbRisk.loss >= 5000 /\ dbRisk.position # None
        /\ inv[p].call.quantity * Val(inv[p].call.current_price) > 100000
        /\ inv[p].call.risk_message = "Daily trade limit exceeded"
        /\ ~inv[p].call.risk_ok

\* the step in which the _execute_trade call of invocation p commits and
\* returns after the order placement of a live strategy failed
LivePlacementFailed(p) ==
    /\ pc[p] = "commit_trade"
    /\ pc'[p] # "commit_trade"
    /\ ~dbStrategy[inv[p].call.strategy_id].is_paper_trading
    /\ inv[p].call.orders > 0
    /\ ~inv[p].call.success

\* C29: when the live order placement fails for a strategy (a response
\* without order data, or an exception of the client), the Trade of the
\* call is stored with status failed when the commit of the call succeeds
\* and no Trade is stored otherwise; the strategy's total_trades is
\* unchanged; the call returns false and the loop goes on to the next
\* strategy, or to the alert's conclusion after the last one; the alert
\* is not marked failed by it.
C29_FailedPlacementIsNotFatal ==
    [][\A p \in Procs :
        LivePlacementFailed(p) =>
            LET s == inv[p].call.strategy_id IN
            /\ IF inv'[p].commits = inv[p].commits + 1
               THEN /\ Len(dbTrades') = Len(dbTrades) + 1
                    /\ dbTrades'[Len(dbTrades')].strategy_id = s
                    /\ dbTrades'[Len(dbTrades')].alert_id = inv[p].alert_id
                    /\ dbTrades'[Len(dbTrades')].status = "failed"
               ELSE dbTrades' = dbTrades
            /\ dbStrategy'[s].total_trades = dbStrategy[s].total_trades
            /\ inv'[p].call.returned = "False"
            /\ inv'[p].trades_executed = inv[p].trades_executed
            /\ IF inv[p].idx < Len(inv[p].strategies)
               THEN pc'[p] = "should_execute" /\ inv'[p].idx = inv[p].idx + 1
               ELSE pc'[p] = "commit_final"
            /\ inv'[p].status # "failed"
            /\ ~inv'[p].handled]_vars

\* an alert ended processed with the failed trade of its first live
\* strategy and the submitted trade of its second
C29_Witness ==
    \E p \in Procs :
        /\ Finished(p) /\ Alert(p).status = "processed"
        /\ Len(dbTrades) = 2
        /\ dbTrades[1].strategy_id = 1 /\ dbTrades[1].status = "failed"
        /\ dbTrades[2].strategy_id = 2 /\ dbTrades[2].status = "submitted"
        /\ ~dbStrategy[1].is_paper_trading /\ ~dbStrategy[2].is_paper_trading
        /\ dbStrategy[1].total_trades = 0 /\ dbStrategy[2].total_trades = 1

\* task t was enqueued, waits in no queue, is not with its handler and was
\* never handled with a true result
Lost(t) ==
    /\ t <= bg.enqueued
    /\ ~Queued(t)
    /\ ~(bg.task = t /\ bg.at \in {"trade_task", "alert_task"})
    /\ ~\E k \in 1..Len(bg.log) : bg.log[k].id = t /\ bg.log[k].outcome = "True"

\* C30: delivery is at-least-once: a task whose handling failed (false
\* result or exception) is delivered again, so no enqueued task stays
\* lost without having been handled successfully.
C30_FailedTaskDeliveredAgain == \A t \in TaskIds : []<>(~Lost(t))

\* C31: between the engine's construction and close_all_clients, whatever
\* the interleaving of the calls, _get_fyers_client makes at most one
\* client per user and every call for the user is given that client.
C31_OneClientPerUser ==
    /\ \A u \in ClientUsers :
        /\ fc.created[u] <= 1
        /\ Cardinality(fc.handed[u]) <= 1
    /\ (fc.last # None /\ ~fc.closed) =>
        /\ fc.cache[Val(fc.last).user_id] # None
        /\ Val(fc.cache[Val(fc.last).user_id]).handle = Val(fc.last).handle

\* three calls from two invocations were given the one client of user 1
C31_Witness ==
    /\ fc.calls = 3
    /\ fc.created[1] = 1 /\ fc.created[2] = 0
    /\ Cardinality(fc.handed[1]) = 1
    /\ Val(fc.last).invocation = 2
    /\ Val(fc.last).handle = 1

\* C39: the client a _get_fyers_client call returns carries the access
\* token the user has in the store at the time of the call, also after the
\* token was replaced by a re-authentication or a refresh.
C39_ClientCarriesStoredToken ==
    fc.last # None => Val(fc.last).access_token = Val(fc.last).stored_token

\* C32: each update_performance_metrics(pnl, is_winning) call adds 1 to
\* total_trades and pnl to total_pnl, adds 1 to winning_trades when
\* is_winning and to losing_trades otherwise and leaves the other of the
\* two alone; after any sequence of calls winning_trades + losing_trades is
\* the number of calls, and max_drawdown never decreases.
C32_MetricsUpdate ==
    [][pm'.calls = pm.calls + 1 =>
        /\ pm'.strategy.total_trades = pm.strategy.total_trades + 1
        /\ pm'.strategy.total_pnl = pm.strategy.total_pnl + pm'.trade_pnl
        /\ pm'.strategy.winning_trades =
              pm.strategy.winning_trades + (IF pm'.is_winning THEN 1 ELSE 0)
        /\ pm'.strategy.losing_trades =
              pm.strategy.losing_trades + (IF pm'.is_winning THEN 0 ELSE 1)
        /\ pm'.strategy.winning_trades + pm'.strategy.losing_trades = pm'.calls
        /\ pm'.strategy.max_drawdown >= pm.strategy.max_drawdown]_vars

\* after a loss of 100 was recovered in part, the drawdown is still 100
C32_Witness ==
    /\ pm.calls = 3
    /\ pm.strategy.total_pnl = -50
    /\ pm.strategy.max_drawdown = 100
    /\ pm.strategy.winning_trades = 1 /\ pm.strategy.losing_trades = 2

\* C33: of two overlapping process_alert invocations for one alert at most
\* one executes trades: an invocation that finds the alert persisted in
\* status processing constructs no Trade and places no broker order.
C33_ProcessingAlertNotExecutedAgain ==
    /\ \A p \in Procs :
        inv[p].found = "processing" => inv[p].created = 0 /\ inv[p].orders = 0
    /\ \A p, q \in Procs :
        (p # q /\ inv[p].alert_id = inv[q].alert_id /\ inv[p].found # "none") =>
            ~(inv[p].created > 0 /\ inv[q].created > 0)


\* C34: every order the broker accepted from _execute_live_trade is
\* recorded: once the _execute_trade call that placed it has left its
\* commit (lines 282-287), a Trade carrying the broker's order id is
\* persisted, also when that commit failed.
C34_AcceptedOrderRecorded ==
    \A order_id \in 1..ordersPlaced :
        \/ \E p \in Procs :
            /\ pc[p] = "commit_trade"
            /\ inv[p].trade # None
            /\ Val(inv[p].trade).fyers_order_id = Some(order_id)
        \/ \E i \in 1..Len(dbTrades) : dbTrades[i].fyers_order_id = Some(order_id)


\* C35: one order placement of _execute_live_trade (one _make_request call
\* for POST /orders) creates at most one order at the broker, also when
\* the HTTP layer fails after the broker received the request and the
\* POST is retried.
C35_AtMostOneOrderPerPlacement ==
    rq.endpoint = "POST /orders" => rq.created <= 1


\* the persisted trades the engine submitted today
SubmittedToday ==
    { i \in 1..Len(dbTrades) :
        \E k \in 1..Len(dbTrades[i].status_log) :
            dbTrades[i].status_log[k] = "submitted" }

\* C36: the trades of the user's day that the engine submitted (those
\* filled before the run and those the engine submitted since, paper or
\* live) never number more than max_daily_trades, also with several
\* strategies for one alert and with trades not yet reconciled to filled.
C36_DailyTradesWithinLimit ==
    dbRisk.count + Cardinality(SubmittedToday) <= max_daily_trades


\* C37: every alert whose alert_processing task the consumer took was found
\* by process_alert, never dropped as not found, and an alert that
\* process_alert processed has left status received.
C37_EnqueuedAlertIsFound ==
    \A a \in SignalAlertIds :
        /\ wh.outcome[a] # "not_found"
        /\ wh.outcome[a] = "processed" => wh.rows[a] # "received"

\* C38: a live Trade submitted with a broker order id is eventually
\* reconciled: once the broker reports filled, cancelled or rejected for
\* its order, the Trade eventually has the broker's status.
C38_SubmittedTradeReconciled ==
    \A a \in SignalAlertIds :
        (wh.trade[a] = "submitted" /\ wh.order[a] \in FinalOrderStatus)
            ~> (wh.trade[a] = wh.order[a])


\* C40: every Trade _execute_trade creates, in memory or persisted, has
\* quantity * price <= max_position_size, and the Trade object carries
\* exactly the quantity and the price the risk check of the call accepted.
C40_TradeValueWithinLimit ==
    /\ \A p \in Procs :
        inv[p].trade # None =>
            /\ inv[p].call.risk_ok
            /\ Val(inv[p].trade).quantity = inv[p].call.quantity
            /\ Val(inv[p].trade).price = inv[p].call.current_price
            /\ Val(inv[p].trade).quantity * Val(Val(inv[p].trade).price) <= max_position_size
    /\ \A i \in 1..Len(dbTrades) :
        dbTrades[i].quantity * Val(dbTrades[i].price) <= max_position_size

\* a Trade of 2 shares at 40000 is persisted, and the same invocation went
\* on to a second strategy whose risk check ran as well
C40_Witness ==
    \E p \in Procs :
        /\ Len(dbTrades) > 0
        /\ dbTrades[1].quantity * Val(dbTrades[1].price) = 80000
        /\ inv[p].call.risk_checked
        /\ inv[p].exec_true > 0

====
